---- MODULE Spec2Model ----
(***************************************************************************)
(* A model of the rust-lang-2 toolchain: lexer, parser, bytecode compiler  *)
(* and the stack VM (Stack, Pool, Scope, VMInstance), written from the     *)
(* sources under src/src.                                                  *)
(***************************************************************************)
EXTENDS Integers, Sequences, FiniteSets, TLC

\* A value bound to a name: F's parameter is v
Let(v, F(_)) == F(v)

\* ------------------------------------------------------------------------
\* Program constants
\* ------------------------------------------------------------------------

\* vm/mod.rs: const STACK_SIZE: usize = 512
STACK_SIZE == 512

\* vm/mod.rs: const GC_INSTRUCTION_COUNT: usize = 50
GC_INSTRUCTION_COUNT == 50

\* i32::MAX and i32::MIN
MaxI32 == 2147483647

MinI32 == (-2147483647) - 1

\* ------------------------------------------------------------------------
\* Bounds of the model
\* ------------------------------------------------------------------------

\* Stack harness: how many pops one run of the harness performs.
MaxPops == 3

\* The number of lines of a shell session
MaxLines == 2

\* The number of operands of a generated arithmetic expression
MaxOperands == 3

\* The number of parameters and of arguments of a generated call
MaxParams == 2

MaxArgs == 2

\* Stack harness: below this depth a push may carry either test value.
VarDepth == 2

\* The number of nested do_exec invocations the native stack has room for
MaxDepth == 4

\* Scope harness: the number of Scopes
MaxScopes == 3

\* Compiler harness: how many expressions enclose the innermost one
MaxNest == 1

\* The number of pieces of a text handed to the lexer harness
MaxPieces == 5

\* Compiler harness: how deep function literals and calls are nested
MaxCallNest == 2

VARIABLES
    program,            \* Lang::compiled: the Program, grown line by line
    stack,              \* struct Stack { stacki, stack }
    pool,               \* Pool::pool
    scopes,             \* the live Scopes: 1 the root Scope, 2 the root
                        \* instance's, then one per call in progress
    frames,             \* the do_exec invocations in progress, outermost first
    instruction_count,  \* VMInstance::instruction_count (shared)
    next_id,            \* the identity the next Rc allocation of the Pool gets
    status,             \* "idle", "exec" (inside VM::exec) or "panic"
    returned,           \* what the last Lang::run returned
    line,               \* the source text of the last Lang::run
    runs,               \* the number of Lang::run calls so far
    sres,               \* outcome of the last Stack operation of the harness
    hres                \* outcome of the last operation of the Scope and compiler harnesses

\* ------------------------------------------------------------------------
\* Values (vm/mod.rs enum Value). One record shape for every variant:
\*   k  the variant, n/d an integer payload (Int value, Float numerator and
\*   denominator, Function position), s a text payload (String content,
\*   Variable identifier; a sequence of characters), id the identity of the Rc allocation (0 when the
\*   value was never handed to the Pool).
\* ------------------------------------------------------------------------

Val(k, n, d, s) == [k |-> k, n |-> n, d |-> d, s |-> s, id |-> 0]

NULL == Val("Null", 0, 1, <<>>)

VInt(i) == Val("Int", i, 1, <<>>)

\* Float(n/d); d = 0 stands for the non-finite results (n = 1: inf,
\* n = -1: -inf, n = 0: NaN)
VFloat(n, d) == Val("Float", n, d, <<>>)

VString(s) == Val("String", 0, 1, s)

VVariable(identifier) == Val("Variable", 0, 1, identifier)

VFunction(position) == Val("Function", position, 1, <<>>)

\* Option::None of a stack slot
NoneV == Val("None", 0, 1, <<>>)

\* ------------------------------------------------------------------------
\* Errors (error/mod.rs). type is the VMErrorType / CompilerErrorType / ...
\* variant; stack_size and index are the payload of StackOverflow. Of the
\* texts an Error carries the description is kept; help, and the code and
\* file that the shell attaches for display, are not.
\* ------------------------------------------------------------------------

\* The text of Error::description: the words of the format string, the
\* name of the token or instruction code it prints and the values it prints
Description(text, code, vals) ==
    [text |-> text, code |-> code, vals |-> [i \in DOMAIN vals |-> [vals[i] EXCEPT !.id = 0]]]

NoDescription == Description("", "", <<>>)

\* Error::new
Error(offset, width, type) ==
    [type |-> type, offset |-> offset, width |-> width, stack_size |-> 0, index |-> 0,
     description |-> NoDescription]

\* Error::with_description
with_description(e, description) == [e EXCEPT !.description = description]

StackOverflow(offset, width, index) ==
    [type |-> "StackOverflow", offset |-> offset, width |-> width,
     stack_size |-> STACK_SIZE, index |-> index, description |-> NoDescription]

NoError == Error(0, 0, "")

\* ------------------------------------------------------------------------
\* Stack (vm/stack.rs)
\* ------------------------------------------------------------------------

\* Stack::new: stacki 0 and STACK_SIZE empty slots
StackNew == [stacki |-> 0, stack |-> [i \in 0 .. STACK_SIZE - 1 |-> NoneV]]

\* Stack::check_range: the error, or NoError
check_range(st, ins, index_diff) ==
    LET index == st.stacki + index_diff
    IN  IF index < 0 \/ index >= STACK_SIZE
        THEN with_description(StackOverflow(ins.offset, ins.width, index),
                              Description("Stack overflow during operation", ins.code, <<>>))
        ELSE NoError

\* A push that writes the slot stacki points at before it is raised
StackPushBelow(st, ins, val) ==
    Let(check_range(st, ins, 1), LAMBDA e :
        IF e # NoError
        THEN [ok |-> FALSE, err |-> e, st |-> st]
        ELSE [ok |-> TRUE, err |-> NoError,
              st |-> [stacki |-> st.stacki + 1,
                      stack |-> [st.stack EXCEPT ![st.stacki] = val]]])

\* A push that moves stacki before it checks the range
StackPushMoveFirst(st, ins, val) ==
    Let(check_range(st, ins, 1), LAMBDA e :
        IF e # NoError
        THEN [ok |-> FALSE, err |-> e, st |-> [st EXCEPT !.stacki = @ + 1]]
        ELSE [ok |-> TRUE, err |-> NoError,
              st |-> [stacki |-> st.stacki + 1,
                      stack |-> [st.stack EXCEPT ![st.stacki + 1] = val]]])

\* Stack::push: [ok, err, st]
StackPush(st, ins, val) ==
    Let(check_range(st, ins, 1), LAMBDA e :
        IF e # NoError
        THEN [ok |-> FALSE, err |-> e, st |-> st]
        ELSE [ok |-> TRUE, err |-> NoError,
              st |-> [stacki |-> st.stacki + 1,
                      stack |-> [st.stack EXCEPT ![st.stacki + 1] = val]]])

\* Stack::pop: [ok, err, val, st]. The slot keeps its reference; an empty
\* slot fails after stacki was lowered.
StackPop(st, ins) ==
    Let(check_range(st, ins, -1), LAMBDA e :
        IF e # NoError
        THEN [ok |-> FALSE, err |-> e, val |-> NoneV, st |-> st]
        ELSE Let([st EXCEPT !.stacki = st.stacki - 1], LAMBDA st2 :
                 IF st.stack[st2.stacki + 1] = NoneV
                 THEN [ok |-> FALSE,
                       err |-> Error(ins.offset, ins.width, "StackElementUninitialized"),
                       val |-> NoneV, st |-> st2]
                 ELSE [ok |-> TRUE, err |-> NoError, val |-> st.stack[st2.stacki + 1],
                       st |-> st2]))

\* ------------------------------------------------------------------------
\* Lexer (lexer/mod.rs, lexer/definitions.rs). Source text is a sequence of
\* one-character strings; offsets count from 0 as in the source.
\* ------------------------------------------------------------------------

Digits == {"0", "1", "2", "3", "4", "5", "6", "7", "8", "9"}

DigitVal(c) ==
    CASE c = "0" -> 0 [] c = "1" -> 1 [] c = "2" -> 2 [] c = "3" -> 3
      [] c = "4" -> 4 [] c = "5" -> 5 [] c = "6" -> 6 [] c = "7" -> 7
      [] c = "8" -> 8 [] c = "9" -> 9

\* [a-zA-Z_] of identifier_re
IdentStart ==
    {"a", "b", "c", "d", "e", "f", "g", "h", "i", "j", "k", "l", "m", "n", "o",
     "p", "q", "r", "s", "t", "u", "v", "w", "x", "y", "z",
     "A", "B", "C", "D", "E", "F", "G", "H", "I", "J", "K", "L", "M", "N", "O",
     "P", "Q", "R", "S", "T", "U", "V", "W", "X", "Y", "Z", "_"}

\* [0-9a-zA-Z_] of identifier_re
IdentChar == IdentStart \cup Digits

\* struct Block; lit is the Literal of BlockType::Literal, the identifier of
\* BlockType::Identifier is content. width is content.len().
Block(block_type, token, content, offset, lit) ==
    [block_type |-> block_type, token |-> token, content |-> content,
     offset |-> offset, width |-> Len(content), lit |-> lit]

\* TOKENS of lexer/definitions.rs: the symbols of one character
Token1(c) ==
    CASE c = " " -> "Space" [] c = "\t" -> "Tab" [] c = "\n" -> "NewLine"
      [] c = "/" -> "FSlash" [] c = "+" -> "Plus" [] c = "*" -> "Asterix"
      [] c = "-" -> "Minus" [] c = "=" -> "Equals"
      [] c = "(" -> "ParOpen" [] c = ")" -> "ParClosed"
      [] c = "{" -> "BracketOpen" [] c = "}" -> "BracketClosed"
      [] c = "[" -> "BraceOpen" [] c = "]" -> "BraceClosed"
      [] c = ";" -> "SemiColon" [] c = "," -> "Comma" [] c = "." -> "Dot"
      [] OTHER -> ""

\* TOKENS of lexer/definitions.rs: the symbols of two characters
Token2(c1, c2) ==
    CASE c1 = "*" /\ c2 = "*" -> "DoubleAsterix"
      [] c1 = "=" /\ c2 = "=" -> "DoubleEquals"
      [] c1 = "-" /\ c2 = "=" -> "MinusEquals"
      [] c1 = "+" /\ c2 = "=" -> "PlusEquals"
      [] c1 = "=" /\ c2 = ">" -> "Lambda"
      [] OTHER -> ""

NoBlock == Block("", "", <<>>, 0, NoneV)

\* Lexer::get_token: the symbols are tried longest first (Lexer::new sorts
\* them by length, descending)
get_token(content, offset) ==
    IF Len(content) >= 2 /\ Token2(content[1], content[2]) # ""
    THEN Block("Token", Token2(content[1], content[2]), SubSeq(content, 1, 2), offset, NoneV)
    ELSE IF Len(content) >= 1 /\ Token1(content[1]) # ""
    THEN Block("Token", Token1(content[1]), SubSeq(content, 1, 1), offset, NoneV)
    ELSE NoBlock

RECURSIVE DigitsValue(_)
\* the number a sequence of digits denotes
DigitsValue(ds) ==
    IF ds = <<>> THEN 0
    ELSE DigitsValue(SubSeq(ds, 1, Len(ds) - 1)) * 10 + DigitVal(ds[Len(ds)])

RECURSIVE Pow10(_)
Pow10(k) == IF k = 0 THEN 1 ELSE 10 * Pow10(k - 1)

RECURSIVE GCD(_, _)
GCD(a, b) == IF b = 0 THEN a ELSE GCD(b, a % b)

Abs(x) == IF x < 0 THEN -x ELSE x

\* n/d in lowest terms with d > 0 (d = 0: a non-finite value, n its sign)
Rat(n, d) ==
    IF d = 0 THEN VFloat(IF n > 0 THEN 1 ELSE IF n < 0 THEN -1 ELSE 0, 0)
    ELSE LET g == GCD(Abs(n), Abs(d))
             sg == IF d < 0 THEN -1 ELSE 1
         IN  VFloat(sg * (n \div g), sg * (d \div g))

\* The decimal literals the model parses as f64 have at most MaxDigits
\* characters, so that numerator and denominator stay within 32 bits.
MaxDigits == 9

RECURSIVE StripZeros(_)
\* a sequence of digits without its leading zeros
StripZeros(ds) == IF ds # <<>> /\ ds[1] = "0" THEN StripZeros(Tail(ds)) ELSE ds

\* Whether the digits (no leading zero) denote a number of at most i32::MAX
FitsI32(ds) ==
    \/ Len(ds) <= 9
    \/ /\ Len(ds) = 10
       /\ \/ DigitsValue(SubSeq(ds, 1, 9)) < MaxI32 \div 10
          \/ /\ DigitsValue(SubSeq(ds, 1, 9)) = MaxI32 \div 10
             /\ DigitVal(ds[10]) <= MaxI32 % 10

\* str::parse::<i32> of a slice that holds no sign (a sign never starts a
\* literal: get_token takes it first)
ParseI32(slice) ==
    IF /\ Len(slice) >= 1
       /\ \A i \in 1 .. Len(slice) : slice[i] \in Digits
       /\ FitsI32(StripZeros(slice))
    THEN [ok |-> TRUE, v |-> VInt(DigitsValue(StripZeros(slice)))]
    ELSE [ok |-> FALSE, v |-> NoneV]

\* str::parse::<f64> of the decimal forms digits, digits.digits, digits. and
\* .digits (exponents and the inf / nan spellings are left out of the model;
\* the decimal value is kept exactly, as a fraction)
ParseF64(slice) ==
    LET dots == {i \in 1 .. Len(slice) : slice[i] = "."}
    IN  IF /\ Len(slice) >= 1
           /\ Len(slice) <= MaxDigits
           /\ Cardinality(dots) <= 1
           /\ \A i \in 1 .. Len(slice) : slice[i] \in Digits \cup {"."}
           /\ \E i \in 1 .. Len(slice) : slice[i] \in Digits
        THEN LET dot == IF dots = {} THEN Len(slice) + 1 ELSE CHOOSE i \in dots : TRUE
                 ip == SubSeq(slice, 1, dot - 1)
                 fp == SubSeq(slice, dot + 1, Len(slice))
             IN  [ok |-> TRUE, v |-> Rat(DigitsValue(ip \o fp), Pow10(Len(fp)))]
        ELSE [ok |-> FALSE, v |-> NoneV]

\* The largest of a non-empty set of numbers
Max(set) == CHOOSE x \in set : \A y \in set : y <= x

\* One iteration of the loop of Lexer::get_literal: the Literal the slice
\* is, if it is one
get_literal_at(slice) ==
    Let(ParseI32(slice), LAMBDA int :
        IF int.ok THEN int.v
        ELSE Let(ParseF64(slice), LAMBDA float :
                 IF float.ok THEN float.v
                 ELSE IF slice = <<"n", "u", "l", "l">> THEN NULL
                 ELSE NoneV))

\* Lexer::get_literal: the longest prefix that is an i32, an f64 or null
\* (the loop tries the prefixes from the longest down)
get_literal(content, offset) ==
    Let({i \in 1 .. Len(content) : get_literal_at(SubSeq(content, 1, i)) # NoneV},
        LAMBDA found :
        IF found = {} THEN NoBlock
        ELSE Let(SubSeq(content, 1, Max(found)), LAMBDA slice :
                 Block("Literal", "Literal", slice, offset, get_literal_at(slice))))

\* identifier_re: (^[a-zA-Z_][0-9a-zA-Z_]+$)|(^[a-zA-Z_]+$)
identifier_re(slice) ==
    /\ Len(slice) >= 1
    /\ slice[1] \in IdentStart
    /\ \A i \in 2 .. Len(slice) : slice[i] \in IdentChar

\* Lexer::get_identifier: the longest prefix that is an identifier (the
\* loop tries the prefixes from the longest down)
get_identifier(content, offset) ==
    Let({i \in 1 .. Len(content) : identifier_re(SubSeq(content, 1, i))}, LAMBDA found :
        IF found = {} THEN NoBlock
        ELSE Block("Identifier", "Identifier", SubSeq(content, 1, Max(found)), offset,
                   NoneV))

\* Result<LinkedList<Block>, Error> of the lexer passes
LexOk(list) == [ok |-> TRUE, err |-> NoError, list |-> list]

LexErr(e) == [ok |-> FALSE, err |-> e, list |-> <<>>]

\* One iteration of the loop of Lexer::tokenize at index st.i: the token,
\* else the literal, else the identifier that starts there
tokenize_step(block, st) ==
    Let(SubSeq(block.content, st.i + 1, Len(block.content)), LAMBDA slice :
    Let(get_token(slice, st.i + block.offset), LAMBDA token :
        IF token # NoBlock
        THEN [st EXCEPT !.i = st.i + token.width, !.list = Append(st.list, token)]
        ELSE Let(get_literal(slice, st.i + block.offset), LAMBDA literal :
            IF literal # NoBlock
            THEN [st EXCEPT !.i = st.i + literal.width, !.list = Append(st.list, literal)]
            ELSE Let(get_identifier(slice, st.i + block.offset), LAMBDA identifier :
                IF identifier # NoBlock
                THEN [st EXCEPT !.i = st.i + identifier.width,
                                !.list = Append(st.list, identifier)]
                ELSE [ok |-> FALSE, list |-> <<>>, i |-> st.i,
                      err |-> Error(block.offset + st.i, 1, "UnknownToken")]))))

RECURSIVE tokenize_from(_, _)
\* while i < block.content.len(), until an error is returned
tokenize_from(block, st) ==
    IF ~st.ok \/ st.i >= Len(block.content) THEN [ok |-> st.ok, err |-> st.err, list |-> st.list]
    ELSE tokenize_from(block, tokenize_step(block, st))

\* Lexer::tokenize: the blocks of a Rest block, white space dropped
tokenize(block) ==
    Let(tokenize_from(block, [ok |-> TRUE, err |-> NoError, list |-> <<>>, i |-> 0]),
        LAMBDA r :
        IF r.ok
        THEN LexOk(SelectSeq(r.list, LAMBDA v : v.token \notin {"Space", "Tab", "NewLine"}))
        ELSE r)

\* String::pop of a buffer
PopChar(buf) == IF buf = <<>> THEN buf ELSE SubSeq(buf, 1, Len(buf) - 1)

\* One iteration of the loop of Lexer::strip_comments over character v at
\* index i (from 0). last is get_last(&positions).
strip_comments_step(block, st, i, v) ==
    LET cc0 == IF v # "/" THEN 0 ELSE st.comment_count
    IN  IF v = "/" /\ ~st.is_comment /\ cc0 + 1 >= 2
        THEN Let(PopChar(st.buf), LAMBDA buf :
                 [comment_count |-> cc0 + 1, is_comment |-> TRUE, last |-> i + 1,
                  buf |-> <<>>, i |-> i,
                  result |-> IF Len(buf) > 0
                             THEN Append(st.result,
                                         Block("Rest", "Rest", buf, block.offset + st.last, NoneV))
                             ELSE st.result])
        ELSE IF v = "\n" /\ st.is_comment
        THEN [comment_count |-> cc0, is_comment |-> FALSE, last |-> i + 1,
              buf |-> <<>>, i |-> i,
              result |-> Append(st.result,
                                Block("Comment", "Comment", st.buf, block.offset + st.last, NoneV))]
        ELSE [st EXCEPT !.comment_count = IF v = "/" THEN cc0 + 1 ELSE cc0,
                        !.buf = Append(st.buf, v)]

RECURSIVE strip_comments_loop(_, _)
\* for (i, v) in block.content.chars().enumerate(): st.i is i
strip_comments_loop(block, st) ==
    IF st.i >= Len(block.content) THEN st
    ELSE strip_comments_loop(block,
             [strip_comments_step(block, st, st.i, block.content[st.i + 1])
                 EXCEPT !.i = st.i + 1])

\* Lexer::strip_comments: a Rest block cut into Rest and Comment blocks
strip_comments(block) ==
    Let(strip_comments_loop(block,
            [comment_count |-> 0, is_comment |-> FALSE, last |-> 0,
             buf |-> <<>>, result |-> <<>>, i |-> 0]), LAMBDA st :
        LexOk(IF Len(st.buf) > 0
              THEN Append(st.result,
                          Block(IF st.is_comment THEN "Comment" ELSE "Rest",
                                IF st.is_comment THEN "Comment" ELSE "Rest",
                                st.buf, block.offset + st.last, NoneV))
              ELSE st.result))

\* A loop body that counts the slashes inside a string literal as well
strip_strings_stepCounting(block, st, i, v) ==
    IF st.is_comment /\ v # "\n"
    THEN [st EXCEPT !.buf = Append(st.buf, v)]
    ELSE LET cc0 == IF v # "/" THEN 0 ELSE st.comment_count
             cc1 == IF v = "/" THEN cc0 + 1
                    ELSE IF v = "\n" THEN 0 ELSE cc0
             ic1 == IF v = "/" /\ cc1 >= 2 THEN TRUE
                    ELSE IF v = "\n" THEN FALSE ELSE st.is_comment
             esc1 == IF v = "\\" THEN ~st.escaped /\ st.is_string ELSE st.escaped
             s1 == [st EXCEPT !.comment_count = cc1, !.is_comment = ic1, !.escaped = esc1]
         IN  IF v = "\\" /\ esc1
             THEN s1
             ELSE IF v = "\"" /\ ~esc1
             THEN [s1 EXCEPT
                     !.result = Append(st.result,
                         IF st.is_string
                         THEN Block("Literal", "Literal", st.buf, block.offset + st.last,
                                    VString(st.buf))
                         ELSE Block("Rest", "Rest", st.buf, block.offset + st.last, NoneV)),
                     !.last = i + 1,
                     !.buf = <<>>,
                     !.is_string = ~st.is_string]
             ELSE [s1 EXCEPT !.escaped = FALSE, !.buf = Append(st.buf, v)]

\* One iteration of the loop of Lexer::strip_strings over character v at
\* index i (from 0).
strip_strings_step(block, st, i, v) ==
    IF st.is_comment /\ v # "\n"
    THEN [st EXCEPT !.buf = Append(st.buf, v)]
    ELSE LET cc0 == IF v # "/" THEN 0 ELSE st.comment_count
             cc1 == IF v = "/" /\ ~st.is_string THEN cc0 + 1
                    ELSE IF v = "\n" THEN 0 ELSE cc0
             ic1 == IF v = "/" /\ ~st.is_string /\ cc1 >= 2 THEN TRUE
                    ELSE IF v = "\n" THEN FALSE ELSE st.is_comment
             esc1 == IF v = "\\" THEN ~st.escaped /\ st.is_string ELSE st.escaped
             s1 == [st EXCEPT !.comment_count = cc1, !.is_comment = ic1, !.escaped = esc1]
         IN  IF v = "\\" /\ esc1
             THEN s1
             ELSE IF v = "\"" /\ ~esc1
             THEN [s1 EXCEPT
                     !.result = Append(st.result,
                         IF st.is_string
                         THEN Block("Literal", "Literal", st.buf, block.offset + st.last,
                                    VString(st.buf))
                         ELSE Block("Rest", "Rest", st.buf, block.offset + st.last, NoneV)),
                     !.last = i + 1,
                     !.buf = <<>>,
                     !.is_string = ~st.is_string]
             ELSE [s1 EXCEPT !.escaped = FALSE, !.buf = Append(st.buf, v)]

RECURSIVE strip_strings_loop(_, _)
\* for (i, v) in block.content.chars().enumerate(): st.i is i
strip_strings_loop(block, st) ==
    IF st.i >= Len(block.content) THEN st
    ELSE strip_strings_loop(block,
             [strip_strings_step(block, st, st.i, block.content[st.i + 1])
                 EXCEPT !.i = st.i + 1])

\* A strip_strings that reports the position behind the unmatched quote
strip_stringsBehind(block) ==
    Let(strip_strings_loop(block,
            [escaped |-> FALSE, is_string |-> FALSE, comment_count |-> 0,
             is_comment |-> FALSE, last |-> 0, buf |-> <<>>, result |-> <<>>,
             i |-> 0]), LAMBDA st :
        IF st.is_string
        THEN LexErr(Error(block.offset + st.last, 1, "UnexpectedEndOfString"))
        ELSE LexOk(IF Len(st.buf) >= 1
                   THEN Append(st.result,
                               Block("Rest", "Rest", st.buf, block.offset + st.last, NoneV))
                   ELSE st.result))

\* Lexer::strip_strings: the text cut into Rest blocks and string literals
strip_strings(block) ==
    Let(strip_strings_loop(block,
            [escaped |-> FALSE, is_string |-> FALSE, comment_count |-> 0,
             is_comment |-> FALSE, last |-> 0, buf |-> <<>>, result |-> <<>>,
             i |-> 0]), LAMBDA st :
        IF st.is_string
        THEN LexErr(Error(block.offset + st.last - 1, 1, "UnexpectedEndOfString"))
        ELSE LexOk(IF Len(st.buf) >= 1
                   THEN Append(st.result,
                               Block("Rest", "Rest", st.buf, block.offset + st.last, NoneV))
                   ELSE st.result))

RECURSIVE replace_rest_from(_, _, _, _)
replace_rest_from(list, f(_), k, result) ==
    IF k > Len(list) THEN LexOk(result)
    ELSE IF list[k].block_type = "Rest"
    THEN Let(f(list[k]), LAMBDA r :
             IF r.ok THEN replace_rest_from(list, f, k + 1, result \o r.list) ELSE r)
    ELSE replace_rest_from(list, f, k + 1, Append(result, list[k]))

\* Lexer::replace_rest: every Rest block replaced by what f makes of it
replace_rest(list, f(_)) == replace_rest_from(list, f, 1, <<>>)

\* Lexer::lex: strings, then comments, then tokens, between SOF and EOF
lex(query) ==
    Let(strip_strings(Block("Rest", "Rest", query, 0, NoneV)), LAMBDA w_strings :
        IF ~w_strings.ok THEN w_strings
        ELSE Let(replace_rest(w_strings.list, strip_comments), LAMBDA w_comments :
            IF ~w_comments.ok THEN w_comments
            ELSE Let(replace_rest(w_comments.list, tokenize), LAMBDA w_tokens :
                IF ~w_tokens.ok THEN w_tokens
                ELSE Let(<<Block("Token", "SOF", <<>>, 0, NoneV)>> \o w_tokens.list,
                         LAMBDA front :
                     Let(front[Len(front)], LAMBDA last :
                         LexOk(Append(front,
                             Block("Token", "EOF", <<" ">>,
                                   last.offset + last.width + 1, NoneV))))))))

\* ------------------------------------------------------------------------
\* Parser (parser/mod.rs). An Expression is a record of one shape:
\*   expression_type  Empty | Literal | Identifier | List | Binary |
\*                    Function | FunctionCall
\*   lit (Literal), name (Identifier), operator / op_offset / op_width
\*   (Binary), pars and body (Function), kids: the sub-expressions (Binary:
\*   left, right; FunctionCall: func, then the args; List: the items).
\* A Declaration holds one Statement, which holds one Expression: the AST is
\* the sequence of the statements [offset, width, end, expression].
\* ------------------------------------------------------------------------

Expr(expression_type, offset, width) ==
    [expression_type |-> expression_type, offset |-> offset, width |-> width,
     lit |-> NoneV, name |-> <<>>, operator |-> "", op_offset |-> 0, op_width |-> 0,
     pars |-> <<>>, body |-> <<>>, kids |-> <<>>]

NoExpr == Expr("", 0, 0)

Statement(expr, end) ==
    [offset |-> expr.offset, width |-> expr.width, end |-> end, expression |-> expr]

\* Result<Expression, Error> together with the parser's index afterwards;
\* some is the Option of match_lambda, end the statement's end flag.
POk(node, index) == [ok |-> TRUE, err |-> NoError, some |-> TRUE, node |-> node, index |-> index]

PNone(index) == [ok |-> TRUE, err |-> NoError, some |-> FALSE, node |-> NoExpr, index |-> index]

PErr(e) == [ok |-> FALSE, err |-> e, some |-> FALSE, node |-> NoExpr, index |-> 0]

\* Parser::get_at(index + 1)
peek(lexed, index) == IF index + 2 <= Len(lexed) THEN lexed[index + 2] ELSE NoBlock

\* Parser::is_end
is_end(lexed, index) == peek(lexed, index).token = "EOF"

\* Parser::check
check(lexed, index, token) ==
    IF token # "EOF" /\ is_end(lexed, index) THEN NoBlock
    ELSE IF peek(lexed, index).token = token THEN peek(lexed, index)
    ELSE NoBlock

\* Parser::get: the block, when the next block is one of tokens (the caller
\* then advances the index by one)
get(lexed, index, tokens) ==
    IF \E tk \in tokens : check(lexed, index, tk) # NoBlock
    THEN peek(lexed, index)
    ELSE NoBlock

\* Parser::binary
binary(expr, right, block) ==
    [Expr("Binary", expr.offset, right.offset + right.width - expr.offset) EXCEPT
        !.kids = <<expr, right>>, !.operator = block.token,
        !.op_offset = block.offset, !.op_width = block.width]

\* Literal::Null standing for an omitted argument or list item
CommaNull(comma) == [Expr("Literal", comma.offset, comma.width) EXCEPT !.lit = NULL]

RECURSIVE expression(_, _), assign_loop(_, _, _), list(_, _), list_loop(_, _, _, _),
          function(_, _), match_lambda(_, _), lambda_pars(_, _, _), lambda_head(_, _),
          lambda_body(_, _, _, _), addition(_, _), addition_loop(_, _, _),
          multiplication(_, _), multiplication_loop(_, _, _),
          function_call(_, _), function_call_loop(_, _, _), args_loop(_, _, _, _),
          primary(_, _), parenthesis(_, _), statement(_, _)

\* Parser::empty
empty(lexed, index) ==
    PErr(IF peek(lexed, index) # NoBlock
         THEN with_description(
                  Error(peek(lexed, index).offset, peek(lexed, index).width,
                        "UnexpectedToken"),
                  Description("Did not expect token", peek(lexed, index).block_type, <<>>))
         ELSE with_description(Error(0, 0, "UnexpectedToken"),
                               Description("Did not expect token", "Unknown block", <<>>)))

\* Parser::parenthesis
parenthesis(lexed, index) ==
    Let(get(lexed, index, {"ParOpen"}), LAMBDA par :
        IF par # NoBlock
        THEN Let(expression(lexed, index + 1), LAMBDA r :
                 IF ~r.ok THEN r
                 ELSE IF get(lexed, r.index, {"ParClosed"}) = NoBlock
                 THEN PErr(Error(par.offset, par.width, "UnclosedParenthesis"))
                 ELSE POk(r.node, r.index + 1))
        ELSE empty(lexed, index))

\* Parser::primary
primary(lexed, index) ==
    Let(get(lexed, index, {"Literal", "Identifier"}), LAMBDA block :
        IF block # NoBlock
        THEN IF block.block_type = "Literal"
             THEN POk([Expr("Literal", block.offset, block.width) EXCEPT !.lit = block.lit],
                      index + 1)
             ELSE IF block.block_type = "Identifier"
             THEN POk([Expr("Identifier", block.offset, block.width) EXCEPT
                          !.name = block.content], index + 1)
             ELSE PErr(Error(0, 0, "Unknown"))
        ELSE parenthesis(lexed, index))

\* The argument loop of Parser::function_call, after the opening parenthesis
args_loop(lexed, index, open, args) ==
    IF is_end(lexed, index)
    THEN PErr(Error(open.offset, open.width, "UnclosedParenthesis"))
    ELSE Let(get(lexed, index, {"ParClosed"}), LAMBDA par :
        IF par # NoBlock
        THEN [POk(NoExpr, index + 1) EXCEPT
                !.node = [NoExpr EXCEPT !.kids = args, !.offset = par.offset]]
        ELSE Let(get(lexed, index, {"Comma"}), LAMBDA comma :
            IF comma # NoBlock
            THEN args_loop(lexed, index + 1, open, Append(args, CommaNull(comma)))
            ELSE Let(expression(lexed, index), LAMBDA r :
                     IF ~r.ok THEN r
                     ELSE args_loop(lexed,
                                    IF get(lexed, r.index, {"Comma"}) # NoBlock
                                    THEN r.index + 1 ELSE r.index,
                                    open, Append(args, r.node)))))

\* a() : the single omitted argument is removed
call_args(all) ==
    IF Len(all) = 1 /\ all[1].expression_type = "Literal" /\ all[1].lit = NULL
    THEN <<>> ELSE all

\* The while loop of Parser::function_call: one call per opening parenthesis
function_call_loop(lexed, index, expr) ==
    Let(get(lexed, index, {"ParOpen"}), LAMBDA open :
        IF open = NoBlock THEN POk(expr, index)
        ELSE Let(args_loop(lexed, index + 1, open, <<>>), LAMBDA a :
                 IF ~a.ok THEN a
                 ELSE function_call_loop(lexed, a.index,
                          [Expr("FunctionCall", expr.offset,
                                a.node.offset - expr.offset + 1) EXCEPT
                              !.kids = <<expr>> \o call_args(a.node.kids)])))

\* Parser::function_call
function_call(lexed, index) ==
    Let(primary(lexed, index), LAMBDA r :
        IF ~r.ok THEN r ELSE function_call_loop(lexed, r.index, r.node))

multiplication_loop(lexed, index, expr) ==
    Let(get(lexed, index, {"Asterix", "FSlash"}), LAMBDA block :
        IF block = NoBlock THEN POk(expr, index)
        ELSE Let(function_call(lexed, index + 1), LAMBDA r :
                 IF ~r.ok THEN r
                 ELSE multiplication_loop(lexed, r.index, binary(expr, r.node, block))))

\* Parser::multiplication
multiplication(lexed, index) ==
    Let(function_call(lexed, index), LAMBDA r :
        IF ~r.ok THEN r ELSE multiplication_loop(lexed, r.index, r.node))

addition_loop(lexed, index, expr) ==
    Let(get(lexed, index, {"Plus", "Minus"}), LAMBDA block :
        IF block = NoBlock THEN POk(expr, index)
        ELSE Let(multiplication(lexed, index + 1), LAMBDA r :
                 IF ~r.ok THEN r
                 ELSE addition_loop(lexed, r.index, binary(expr, r.node, block))))

\* Parser::addition
addition(lexed, index) ==
    Let(multiplication(lexed, index), LAMBDA r :
        IF ~r.ok THEN r ELSE addition_loop(lexed, r.index, r.node))

\* The parameter loop of Parser::match_lambda: [pars, index]
lambda_pars(lexed, index, pars) ==
    Let(get(lexed, index, {"Identifier"}), LAMBDA arg :
        IF arg = NoBlock THEN [pars |-> pars, index |-> index]
        ELSE IF get(lexed, index + 1, {"Comma"}) = NoBlock
        THEN [pars |-> Append(pars, arg.content), index |-> index + 1]
        ELSE lambda_pars(lexed, index + 2, Append(pars, arg.content)))

\* The body loop of Parser::match_lambda, after the opening bracket; the
\* node returned holds the declarations (body) and the end offset (offset)
lambda_body(lexed, index, open_bracket, declarations) ==
    IF is_end(lexed, index)
    THEN PErr(Error(open_bracket.offset, open_bracket.width, "UnclosedBracket"))
    ELSE Let(get(lexed, index, {"BracketClosed"}), LAMBDA close :
             IF close # NoBlock
             THEN POk([NoExpr EXCEPT !.body = declarations,
                                     !.offset = close.offset + close.width], index + 1)
             ELSE Let(statement(lexed, index), LAMBDA d :
                      IF ~d.ok THEN d
                      ELSE lambda_body(lexed, d.index, open_bracket,
                                       Append(declarations, d.node))))

\* The head of Parser::match_lambda, a parameter list in parentheses or one
\* identifier: [found, start, pars, index]
lambda_head(lexed, index) ==
    Let(get(lexed, index, {"ParOpen"}), LAMBDA par :
        IF par # NoBlock
        THEN Let(lambda_pars(lexed, index + 1, <<>>), LAMBDA lp :
                 IF get(lexed, lp.index, {"ParClosed"}) = NoBlock
                 THEN [found |-> FALSE, start |-> 0, pars |-> <<>>, index |-> index]
                 ELSE [found |-> TRUE, start |-> par.offset, pars |-> lp.pars,
                       index |-> lp.index + 1])
        ELSE Let(get(lexed, index, {"Identifier"}), LAMBDA one :
                 IF one # NoBlock
                 THEN [found |-> TRUE, start |-> one.offset, pars |-> <<one.content>>,
                       index |-> index + 1]
                 ELSE [found |-> FALSE, start |-> 0, pars |-> <<>>, index |-> index]))

\* Parser::match_lambda: Ok(Some(function)), Ok(None) or Err
match_lambda(lexed, index) ==
    Let(lambda_head(lexed, index), LAMBDA head :
        IF ~head.found THEN PNone(index)
        ELSE IF get(lexed, head.index, {"Lambda"}) = NoBlock THEN PNone(index)
        ELSE Let(get(lexed, head.index + 1, {"BracketOpen"}), LAMBDA open_bracket :
                 IF open_bracket # NoBlock
                 THEN Let(lambda_body(lexed, head.index + 2, open_bracket, <<>>), LAMBDA b :
                          IF ~b.ok THEN b
                          ELSE POk([Expr("Function", head.start,
                                         b.node.offset - head.start) EXCEPT
                                       !.pars = head.pars, !.body = b.node.body],
                                   b.index))
                 ELSE Let(expression(lexed, head.index + 1), LAMBDA e :
                          IF ~e.ok THEN e
                          ELSE POk([Expr("Function", head.start,
                                         e.node.offset + e.node.width - head.start) EXCEPT
                                       !.pars = head.pars,
                                       !.body = <<Statement(e.node, FALSE)>>],
                                   e.index))))

\* Parser::function: a lambda, or else (from the same index) an addition
function(lexed, index) ==
    Let(match_lambda(lexed, index), LAMBDA l :
        IF ~l.ok THEN l
        ELSE IF l.some THEN l
        ELSE addition(lexed, index))

\* The loop of Parser::list, after the opening brace
list_loop(lexed, index, open, values) ==
    IF is_end(lexed, index)
    THEN PErr(Error(open.offset, open.width, "UnclosedBrace"))
    ELSE Let(get(lexed, index, {"BraceClosed"}), LAMBDA brace :
        IF brace # NoBlock
        THEN POk([Expr("List", open.offset, brace.offset + brace.width) EXCEPT
                     !.kids = values], index + 1)
        ELSE Let(get(lexed, index, {"Comma"}), LAMBDA comma :
            IF comma # NoBlock
            THEN list_loop(lexed, index + 1, open, Append(values, CommaNull(comma)))
            ELSE Let(expression(lexed, index), LAMBDA r :
                     IF ~r.ok THEN r
                     ELSE list_loop(lexed,
                                    IF get(lexed, r.index, {"Comma"}) # NoBlock
                                    THEN r.index + 1 ELSE r.index,
                                    open, Append(values, r.node)))))

\* Parser::list
list(lexed, index) ==
    Let(get(lexed, index, {"BraceOpen"}), LAMBDA open :
        IF open # NoBlock THEN list_loop(lexed, index + 1, open, <<>>)
        ELSE function(lexed, index))

assign_loop(lexed, index, expr) ==
    Let(get(lexed, index, {"Equals"}), LAMBDA block :
        IF block = NoBlock THEN POk(expr, index)
        ELSE Let(list(lexed, index + 1), LAMBDA r :
                 IF ~r.ok THEN r
                 ELSE assign_loop(lexed, r.index, binary(expr, r.node, block))))

\* Parser::assign
parser_assign(lexed, index) ==
    Let(list(lexed, index), LAMBDA r :
        IF ~r.ok THEN r ELSE assign_loop(lexed, r.index, r.node))

\* Parser::expression
expression(lexed, index) == parser_assign(lexed, index)

\* Parser::statement and Parser::declaration: node is the statement
statement(lexed, index) ==
    Let(expression(lexed, index), LAMBDA r :
        IF ~r.ok THEN r
        ELSE Let(get(lexed, r.index, {"SemiColon"}) # NoBlock, LAMBDA semi :
                 [ok |-> TRUE, err |-> NoError, some |-> TRUE,
                  node |-> Statement(r.node, semi),
                  index |-> IF semi THEN r.index + 1 ELSE r.index]))

RECURSIVE ast_loop(_, _, _)
\* Parser::ast: [ok, err, ast]
ast_loop(lexed, index, ast) ==
    IF is_end(lexed, index) THEN [ok |-> TRUE, err |-> NoError, ast |-> ast]
    ELSE Let(statement(lexed, index), LAMBDA d :
             IF ~d.ok THEN [ok |-> FALSE, err |-> d.err, ast |-> <<>>]
             ELSE ast_loop(lexed, d.index, Append(ast, d.node)))

\* Parser::parse
parse(lexed) == ast_loop(lexed, 0, <<>>)

\* ------------------------------------------------------------------------
\* Compiler (compiler/mod.rs). An Instruction is a record of one shape: code
\* names the opcode; n is the operand of PushNum and PushList, lit of
\* PushFloat and PushString, name of PushVar, pars and body_len of
\* PushFunction, args_len of CallFunction.
\* ------------------------------------------------------------------------

\* Instruction::new
Instruction(offset, width, code) ==
    [offset |-> offset, width |-> width, code |-> code, n |-> 0, lit |-> NoneV,
     name |-> <<>>, pars |-> <<>>, body_len |-> 0, args_len |-> 0]

\* Instruction::from_expression
from_expression(expr, code) == Instruction(expr.offset, expr.width, code)

\* ProgramResult: the Builder's list, or the error
COk(instructions) == [ok |-> TRUE, err |-> NoError, list |-> instructions]

CErr(e) == [ok |-> FALSE, err |-> e, list |-> <<>>]

\* A match with an arm that compiles ** as a multiplication
BinaryCodeWithPower(operator) ==
    CASE operator = "Plus" -> "Add"
      [] operator = "Minus" -> "Subtract"
      [] operator = "FSlash" -> "Divide"
      [] operator \in {"Asterix", "DoubleAsterix"} -> "Multiply"
      [] operator = "Equals" -> "Assign"
      [] OTHER -> ""

\* The opcode of a binary operator ("" when the compiler has none)
BinaryCode(operator) ==
    CASE operator = "Plus" -> "Add"
      [] operator = "Minus" -> "Subtract"
      [] operator = "FSlash" -> "Divide"
      [] operator = "Asterix" -> "Multiply"
      [] operator = "Equals" -> "Assign"
      [] OTHER -> ""

RECURSIVE compile_expression(_), compile_expressions(_, _, _), get_compiled_from(_, _, _)

\* Compiler::statement and Compiler::declaration
compile_statement(stmt) ==
    Let(compile_expression(stmt.expression), LAMBDA r :
        IF ~r.ok THEN r
        ELSE IF stmt.end
        THEN COk(Append(r.list, Instruction(stmt.offset, stmt.width, "Pop")))
        ELSE r)

\* Compiler::get_compiled: the code of the declarations, in order
get_compiled_from(ast, k, builder) ==
    IF k > Len(ast) THEN COk(builder)
    ELSE Let(compile_statement(ast[k]), LAMBDA r :
             IF ~r.ok THEN r ELSE get_compiled_from(ast, k + 1, builder \o r.list))

get_compiled(ast) == get_compiled_from(ast, 1, <<>>)

\* The for loops of Compiler::expression over arguments and list items
compile_expressions(exprs, k, instructions) ==
    IF k > Len(exprs) THEN COk(instructions)
    ELSE Let(compile_expression(exprs[k]), LAMBDA r :
             IF ~r.ok THEN r
             ELSE compile_expressions(exprs, k + 1, instructions \o r.list))

\* An expression whose body_len leaves the closing Return out of the count
compile_expressionBodyOnly(expr) ==
    CASE expr.expression_type = "Literal" ->
            COk(<<CASE expr.lit.k = "Null" -> from_expression(expr, "PushNull")
                    [] expr.lit.k = "Int" ->
                        [from_expression(expr, "PushNum") EXCEPT !.n = expr.lit.n]
                    [] expr.lit.k = "Float" ->
                        [from_expression(expr, "PushFloat") EXCEPT !.lit = expr.lit]
                    [] expr.lit.k = "String" ->
                        [from_expression(expr, "PushString") EXCEPT !.lit = expr.lit]>>)
      [] expr.expression_type = "Identifier" ->
            COk(<<[from_expression(expr, "PushVar") EXCEPT !.name = expr.name]>>)
      [] expr.expression_type = "Binary" ->
            Let(BinaryCode(expr.operator), LAMBDA code :
                IF code = ""
                THEN CErr(with_description(
                              Error(expr.op_offset, expr.op_width, "CompilerNotImplemented"),
                              Description("unimplemented operator", expr.operator, <<>>)))
                ELSE Let(compile_expression(expr.kids[1]), LAMBDA left :
                     IF ~left.ok THEN left
                     ELSE Let(compile_expression(expr.kids[2]), LAMBDA right :
                          IF ~right.ok THEN right
                          ELSE COk(left.list \o right.list
                                   \o <<Instruction(expr.op_offset, expr.op_width, code)>>))))
      [] expr.expression_type = "Function" ->
            Let(get_compiled(expr.body), LAMBDA body :
                IF ~body.ok THEN body
                ELSE COk(<<[from_expression(expr, "PushFunction") EXCEPT
                              !.pars = expr.pars,
                              !.body_len = Len(body.list)]>>
                         \o body.list
                         \o <<from_expression(expr, "Return")>>))
      [] expr.expression_type = "FunctionCall" ->
            Let(compile_expressions(Tail(expr.kids), 1, <<>>), LAMBDA instructions :
                IF ~instructions.ok THEN instructions
                ELSE Let(instructions.list
                         \o <<[from_expression(expr, "PushNum") EXCEPT
                                 !.n = Len(expr.kids) - 1],
                              from_expression(expr, "Return")>>, LAMBDA args :
                     Let(compile_expression(expr.kids[1]), LAMBDA func :
                         IF ~func.ok THEN func
                         ELSE COk(func.list
                                  \o <<[from_expression(expr, "CallFunction") EXCEPT
                                          !.args_len = Len(args)]>>
                                  \o args))))
      [] expr.expression_type = "List" ->
            Let(compile_expressions(expr.kids, 1, <<>>), LAMBDA instructions :
                IF ~instructions.ok THEN instructions
                ELSE COk(Append(instructions.list,
                                [from_expression(expr, "PushList") EXCEPT
                                    !.n = Len(expr.kids)])))
      [] expr.expression_type = "Empty" -> COk(<<>>)

\* Compiler::expression
compile_expression(expr) ==
    CASE expr.expression_type = "Literal" ->
            COk(<<CASE expr.lit.k = "Null" -> from_expression(expr, "PushNull")
                    [] expr.lit.k = "Int" ->
                        [from_expression(expr, "PushNum") EXCEPT !.n = expr.lit.n]
                    [] expr.lit.k = "Float" ->
                        [from_expression(expr, "PushFloat") EXCEPT !.lit = expr.lit]
                    [] expr.lit.k = "String" ->
                        [from_expression(expr, "PushString") EXCEPT !.lit = expr.lit]>>)
      [] expr.expression_type = "Identifier" ->
            COk(<<[from_expression(expr, "PushVar") EXCEPT !.name = expr.name]>>)
      [] expr.expression_type = "Binary" ->
            Let(BinaryCode(expr.operator), LAMBDA code :
                IF code = ""
                THEN CErr(with_description(
                              Error(expr.op_offset, expr.op_width, "CompilerNotImplemented"),
                              Description("unimplemented operator", expr.operator, <<>>)))
                ELSE Let(compile_expression(expr.kids[1]), LAMBDA left :
                     IF ~left.ok THEN left
                     ELSE Let(compile_expression(expr.kids[2]), LAMBDA right :
                          IF ~right.ok THEN right
                          ELSE COk(left.list \o right.list
                                   \o <<Instruction(expr.op_offset, expr.op_width, code)>>))))
      [] expr.expression_type = "Function" ->
            Let(get_compiled(expr.body), LAMBDA body :
                IF ~body.ok THEN body
                ELSE COk(<<[from_expression(expr, "PushFunction") EXCEPT
                              !.pars = expr.pars,
                              !.body_len = Len(body.list) + 1]>>
                         \o body.list
                         \o <<from_expression(expr, "Return")>>))
      [] expr.expression_type = "FunctionCall" ->
            Let(compile_expressions(Tail(expr.kids), 1, <<>>), LAMBDA instructions :
                IF ~instructions.ok THEN instructions
                ELSE Let(instructions.list
                         \o <<[from_expression(expr, "PushNum") EXCEPT
                                 !.n = Len(expr.kids) - 1],
                              from_expression(expr, "Return")>>, LAMBDA args :
                     Let(compile_expression(expr.kids[1]), LAMBDA func :
                         IF ~func.ok THEN func
                         ELSE COk(func.list
                                  \o <<[from_expression(expr, "CallFunction") EXCEPT
                                          !.args_len = Len(args)]>>
                                  \o args))))
      [] expr.expression_type = "List" ->
            Let(compile_expressions(expr.kids, 1, <<>>), LAMBDA instructions :
                IF ~instructions.ok THEN instructions
                ELSE COk(Append(instructions.list,
                                [from_expression(expr, "PushList") EXCEPT
                                    !.n = Len(expr.kids)])))
      [] expr.expression_type = "Empty" -> COk(<<>>)

\* Compiler::compile: Result<Program, Error>
compile(ast) == get_compiled(ast)

\* ------------------------------------------------------------------------
\* i32 and f64 arithmetic of VMInstance::compute_two_operands
\* ------------------------------------------------------------------------

\* The i32 whose two's complement bytes are b3 b2 b1 b0
FromBytes(b3, b2, b1, b0) ==
    (IF b3 >= 128 THEN b3 - 256 ELSE b3) * 16777216 + b2 * 65536 + b1 * 256 + b0

\* Byte k (0 the lowest) of the two's complement form of an i32
Byte(a, k) ==
    CASE k = 0 -> a % 256
      [] k = 1 -> (a \div 256) % 256
      [] k = 2 -> (a \div 65536) % 256
      [] k = 3 -> (a \div 16777216) % 256

\* a + b modulo 2^32 (i32::wrapping_add)
WrappingAdd(a, b) ==
    LET c0 == Byte(a, 0) + Byte(b, 0)
        c1 == Byte(a, 1) + Byte(b, 1) + c0 \div 256
        c2 == Byte(a, 2) + Byte(b, 2) + c1 \div 256
        c3 == Byte(a, 3) + Byte(b, 3) + c2 \div 256
    IN  FromBytes(c3 % 256, c2 % 256, c1 % 256, c0 % 256)

\* a - b modulo 2^32 (i32::wrapping_sub)
WrappingSub(a, b) ==
    LET c0 == Byte(a, 0) - Byte(b, 0)
        c1 == Byte(a, 1) - Byte(b, 1) + c0 \div 256
        c2 == Byte(a, 2) - Byte(b, 2) + c1 \div 256
        c3 == Byte(a, 3) - Byte(b, 3) + c2 \div 256
    IN  FromBytes(c3 % 256, c2 % 256, c1 % 256, c0 % 256)

\* a * b modulo 2^32 (i32::wrapping_mul)
WrappingMul(a, b) ==
    LET r0 == Byte(a, 0) * Byte(b, 0)
        r1 == Byte(a, 0) * Byte(b, 1) + Byte(a, 1) * Byte(b, 0)
        r2 == Byte(a, 0) * Byte(b, 2) + Byte(a, 1) * Byte(b, 1) + Byte(a, 2) * Byte(b, 0)
        r3 == Byte(a, 0) * Byte(b, 3) + Byte(a, 1) * Byte(b, 2)
              + Byte(a, 2) * Byte(b, 1) + Byte(a, 3) * Byte(b, 0)
        c1 == r1 + r0 \div 256
        c2 == r2 + c1 \div 256
        c3 == r3 + c2 \div 256
    IN  FromBytes(c3 % 256, c2 % 256, c1 % 256, r0 % 256)

\* Whether the exact result of the operation lies outside i32
Overflows(code, a, b) ==
    CASE code = "Add" ->
            \/ a >= 0 /\ b >= 0 /\ WrappingAdd(a, b) < 0
            \/ a < 0 /\ b < 0 /\ WrappingAdd(a, b) >= 0
      [] code = "Subtract" ->
            \/ a >= 0 /\ b < 0 /\ WrappingSub(a, b) < 0
            \/ a < 0 /\ b >= 0 /\ WrappingSub(a, b) >= 0
      [] code = "Multiply" ->
            IF a = 0 \/ b = 0 THEN FALSE
            ELSE IF a = MinI32 THEN b # 1
            ELSE IF b = MinI32 THEN a # 1
            ELSE LET w == WrappingMul(a, b)
                 IN  IF w = MinI32
                     THEN ~ /\ (a < 0) # (b < 0)
                            /\ MaxI32 % Abs(a) = Abs(a) - 1
                            /\ MaxI32 \div Abs(a) + 1 = Abs(b)
                     ELSE \/ Abs(w) % Abs(a) # 0
                          \/ Abs(w) \div Abs(a) # Abs(b)
                          \/ (w < 0) # ((a < 0) # (b < 0))
      [] code = "Divide" -> a = MinI32 /\ b = -1

\* A division that rounds down where the divisor is positive
TruncDivFloor(a, b) ==
    IF b > 0 THEN a \div b
    ELSE IF (a < 0) # (b < 0) THEN -(Abs(a) \div Abs(b))
    ELSE Abs(a) \div Abs(b)

\* The quotient of i32 division, which truncates toward zero (b # 0, and
\* not MinI32 / -1)
TruncDiv(a, b) ==
    IF b = MinI32 THEN (IF a = MinI32 THEN 1 ELSE 0)
    ELSE IF a = MinI32
    THEN LET q == (MaxI32 \div Abs(b)) + (IF MaxI32 % Abs(b) = Abs(b) - 1 THEN 1 ELSE 0)
         IN  IF b > 0 THEN -q ELSE q
    ELSE LET q == Abs(a) \div Abs(b)
         IN  IF (a < 0) # (b < 0) THEN -q ELSE q

\* The results first op second can have on i32 operands: "value" with v
\* the result, or "panic". Division by zero and MinI32 / -1 panic in every
\* build; an overflowing + - * panics in a build with overflow checks and
\* wraps in one without.
IntResults(code, first, second) ==
    IF code = "Divide"
    THEN IF second = 0 \/ Overflows(code, first, second)
         THEN {[kind |-> "panic", v |-> 0]}
         ELSE {[kind |-> "value", v |-> TruncDiv(first, second)]}
    ELSE LET w == CASE code = "Add" -> WrappingAdd(first, second)
                    [] code = "Subtract" -> WrappingSub(first, second)
                    [] code = "Multiply" -> WrappingMul(first, second)
         IN  IF Overflows(code, first, second)
             THEN {[kind |-> "panic", v |-> 0], [kind |-> "value", v |-> w]}
             ELSE {[kind |-> "value", v |-> w]}

\* f64::from(i32)
FloatFromInt(i) == VFloat(i, 1)

\* first op second on f64 operands, as fractions. A zero denominator marks
\* the non-finite values: inf (n = 1), -inf (n = -1) and NaN (n = 0); they
\* follow the IEEE rules, the sign of a zero is not kept.
FloatResult(code, x, y) ==
    LET nan == VFloat(0, 0)
        xnan == x.d = 0 /\ x.n = 0
        ynan == y.d = 0 /\ y.n = 0
        xinf == x.d = 0 /\ x.n # 0
        yinf == y.d = 0 /\ y.n # 0
        sign(n) == IF n > 0 THEN 1 ELSE IF n < 0 THEN -1 ELSE 0
    IN  IF xnan \/ ynan THEN nan
        ELSE CASE code = "Add" ->
                    IF xinf /\ yinf THEN (IF x.n = y.n THEN x ELSE nan)
                    ELSE IF xinf THEN x
                    ELSE IF yinf THEN y
                    ELSE Rat(x.n * y.d + y.n * x.d, x.d * y.d)
               [] code = "Subtract" ->
                    IF xinf /\ yinf THEN (IF x.n # y.n THEN x ELSE nan)
                    ELSE IF xinf THEN x
                    ELSE IF yinf THEN VFloat(-y.n, 0)
                    ELSE Rat(x.n * y.d - y.n * x.d, x.d * y.d)
               [] code = "Multiply" ->
                    IF xinf \/ yinf
                    THEN (IF x.n = 0 \/ y.n = 0 THEN nan
                          ELSE VFloat(sign(x.n) * sign(y.n), 0))
                    ELSE Rat(x.n * y.n, x.d * y.d)
               [] code = "Divide" ->
                    IF xinf /\ yinf THEN nan
                    ELSE IF xinf THEN VFloat(IF y.n < 0 THEN -x.n ELSE x.n, 0)
                    ELSE IF yinf THEN VFloat(0, 1)
                    ELSE IF y.n = 0 THEN VFloat(sign(x.n), 0)
                    ELSE Rat(x.n * y.d, x.d * y.n)

\* ------------------------------------------------------------------------
\* Pool (vm/pool.rs) and Scope (vm/scope.rs). The machine state the helpers
\* thread is the record m = [stack, pool, scopes, next_id].
\* ------------------------------------------------------------------------

\* Pool::create: a new Rc, kept in the pool and returned
create(m, val) ==
    [m |-> [m EXCEPT !.pool = Append(m.pool, [val EXCEPT !.id = m.next_id]),
                     !.next_id = m.next_id + 1],
     val |-> [val EXCEPT !.id = m.next_id]]

\* The number of Rc clones of allocation id held outside the pool: by stack
\* slots, by the bindings of the live scopes and by the local variables of
\* the call handlers that wait for a nested do_exec (Rc::strong_count - 1)
Holders(m, fr, id) ==
    LET RECURSIVE Sum(_, _)
        Sum(f(_), n) == IF n = 0 THEN 0 ELSE f(n) + Sum(f, n - 1)
        InScope(s) == Cardinality({x \in DOMAIN m.scopes[s].variables :
                                     m.scopes[s].variables[x].id = id})
        InFrame(k) == Cardinality({j \in DOMAIN fr[k].held : fr[k].held[j].id = id})
    IN  Cardinality({i \in DOMAIN m.stack.stack : m.stack.stack[i].id = id})
        + Sum(InScope, Len(m.scopes))
        + Sum(InFrame, Len(fr))

\* A sweep that keeps the values with Rc::strong_count > 2
garbageShared(m, fr) ==
    [m EXCEPT !.pool = SelectSeq(m.pool, LAMBDA v : Holders(m, fr, v.id) + 1 > 2)]

\* Pool::garbage: keeps the values with Rc::strong_count > 1
garbage(m, fr) ==
    [m EXCEPT !.pool = SelectSeq(m.pool, LAMBDA v : Holders(m, fr, v.id) + 1 > 1)]

\* Scope::garbage, which VMInstance::garbage calls: the sweep of the Pool
\* the scopes share
scope_garbage(m, fr) == garbage(m, fr)

\* Scope::new / Scope::initial (parent 0: None)
ScopeNew(parent) == [parent |-> parent, variables |-> <<>>]

RECURSIVE scope_get_variableOutermost(_, _, _)
\* A get_variable that asks the parent first: the outermost binding wins
scope_get_variableOutermost(scps, s, identifier) ==
    Let(IF scps[s].parent = 0 THEN [some |-> FALSE, val |-> NoneV]
        ELSE scope_get_variableOutermost(scps, scps[s].parent, identifier), LAMBDA outer :
        IF outer.some THEN outer
        ELSE IF identifier \in DOMAIN scps[s].variables
        THEN [some |-> TRUE, val |-> scps[s].variables[identifier]]
        ELSE [some |-> FALSE, val |-> NoneV])

RECURSIVE scope_get_variable(_, _, _)
\* Scope::get_variable: [some, val]
scope_get_variable(scps, s, identifier) ==
    IF identifier \in DOMAIN scps[s].variables
    THEN [some |-> TRUE, val |-> scps[s].variables[identifier]]
    ELSE IF scps[s].parent = 0
    THEN [some |-> FALSE, val |-> NoneV]
    ELSE scope_get_variable(scps, scps[s].parent, identifier)

\* A set_variable that writes into the parent Scope where the name is
\* bound there
scope_set_variableOuter(scps, s, identifier, value) ==
    Let(IF scps[s].parent # 0 /\ identifier \in DOMAIN scps[scps[s].parent].variables
        THEN scps[s].parent ELSE s, LAMBDA target :
        [scps EXCEPT ![target].variables =
            [x \in DOMAIN @ \cup {identifier} |-> IF x = identifier THEN value ELSE @[x]]])

\* Scope::set_variable: HashMap::insert into the scope's own map
scope_set_variable(scps, s, identifier, value) ==
    [scps EXCEPT ![s].variables =
        [x \in DOMAIN @ \cup {identifier} |-> IF x = identifier THEN value ELSE @[x]]]

\* VMInstance::get_variable: a Variable resolves through the scope chain,
\* to a fresh Null when it is bound nowhere; any other value is itself
get_variable(m, s, val) ==
    IF val.k = "Variable"
    THEN Let(scope_get_variable(m.scopes, s, val.s), LAMBDA r :
             IF r.some THEN r.val ELSE NULL)
    ELSE val

\* ------------------------------------------------------------------------
\* VMInstance (vm/mod.rs): the instruction handlers, as functions of the
\* machine state m, the scope s of the executing instance and the
\* instruction. Each returns an outcome: "ok" with the new machine state,
\* "err" with the Error that `?` hands up (and the machine state left
\* behind), or "panic".
\* ------------------------------------------------------------------------

Ok(m) == [kind |-> "ok", err |-> NoError, m |-> m]

Err(m, e) == [kind |-> "err", err |-> e, m |-> m]

Panicked(m) == [kind |-> "panic", err |-> NoError, m |-> m]

\* fn operation_not_supported
operation_not_supported(ins, first, second) ==
    with_description(Error(ins.offset, ins.width, "OperationNotSupported"),
                     Description("Operation not supported for operands of type", ins.code,
                                 <<first, second>>))

\* fn unimplemented
unimplemented(offset, width) == Error(offset, width, "NotImplemented")

\* VMInstance::push
push(m, ins, val) ==
    Let(StackPush(m.stack, ins, val), LAMBDA r :
        IF r.ok THEN Ok([m EXCEPT !.stack = r.st]) ELSE Err(m, r.err))

\* do_exec, Code::PushNum | PushFloat | PushString | PushVar: create, push
push_created(m, ins, val) ==
    Let(create(m, val), LAMBDA c : push(c.m, ins, c.val))

\* The value a literal push instruction creates
LiteralValue(ins) ==
    CASE ins.code = "PushNum" -> VInt(ins.n)
      [] ins.code = "PushFloat" -> ins.lit
      [] ins.code = "PushString" -> ins.lit

\* An assign that binds the right-hand side as it was popped, unresolved
assignUnresolved(m, s, ins) ==
    Let(StackPop(m.stack, ins), LAMBDA stack_second :
        IF ~stack_second.ok THEN Err([m EXCEPT !.stack = stack_second.st], stack_second.err)
        ELSE Let(StackPop(stack_second.st, ins), LAMBDA stack_first :
            Let([m EXCEPT !.stack = stack_first.st], LAMBDA m1 :
                IF ~stack_first.ok THEN Err(m1, stack_first.err)
                ELSE IF stack_first.val.k # "Variable"
                THEN Err(m1, with_description(
                                 Error(ins.offset, ins.width, "AssignToNonVariable"),
                                 Description("cannot assign to", "", <<stack_first.val>>)))
                ELSE push([m1 EXCEPT !.scopes =
                              scope_set_variable(m1.scopes, s, stack_first.val.s,
                                                 stack_second.val)],
                          ins, stack_first.val))))

\* VMInstance::assign
assign(m, s, ins) ==
    Let(StackPop(m.stack, ins), LAMBDA stack_second :
        IF ~stack_second.ok THEN Err([m EXCEPT !.stack = stack_second.st], stack_second.err)
        ELSE Let(StackPop(stack_second.st, ins), LAMBDA stack_first :
            Let([m EXCEPT !.stack = stack_first.st], LAMBDA m1 :
                IF ~stack_first.ok THEN Err(m1, stack_first.err)
                ELSE IF stack_first.val.k # "Variable"
                THEN Err(m1, with_description(
                                 Error(ins.offset, ins.width, "AssignToNonVariable"),
                                 Description("cannot assign to", "", <<stack_first.val>>)))
                ELSE Let(get_variable(m1, s, stack_second.val), LAMBDA second :
                         push([m1 EXCEPT !.scopes =
                                  scope_set_variable(m1.scopes, s, stack_first.val.s, second)],
                              ins, stack_first.val)))))

\* A match whose last arm pools a Null before it fails
operatePooling(m1, ins, stack_first, stack_second) ==
    Let(<<stack_first.k, stack_second.k>>, LAMBDA kinds :
        IF kinds = <<"Int", "Int">>
        THEN {IF r.kind = "panic" THEN Panicked(m1)
              ELSE push_created(m1, ins, VInt(r.v)) :
                r \in IntResults(ins.code, stack_first.n, stack_second.n)}
        ELSE IF kinds \in {<<"Float", "Float">>, <<"Int", "Float">>, <<"Float", "Int">>}
        THEN {push_created(m1, ins,
                  FloatResult(ins.code,
                      IF stack_first.k = "Int" THEN FloatFromInt(stack_first.n)
                      ELSE stack_first,
                      IF stack_second.k = "Int" THEN FloatFromInt(stack_second.n)
                      ELSE stack_second))}
        ELSE {Err(create(m1, NULL).m,
                  operation_not_supported(ins, stack_first, stack_second))})

\* VMInstance::compute_two_operands, the match on the resolved operands:
\* the set of the possible outcomes
operate(m1, ins, stack_first, stack_second) ==
    Let(<<stack_first.k, stack_second.k>>, LAMBDA kinds :
        IF kinds = <<"Int", "Int">>
        THEN {IF r.kind = "panic" THEN Panicked(m1)
              ELSE push_created(m1, ins, VInt(r.v)) :
                r \in IntResults(ins.code, stack_first.n, stack_second.n)}
        ELSE IF kinds \in {<<"Float", "Float">>, <<"Int", "Float">>, <<"Float", "Int">>}
        THEN {push_created(m1, ins,
                  FloatResult(ins.code,
                      IF stack_first.k = "Int" THEN FloatFromInt(stack_first.n)
                      ELSE stack_first,
                      IF stack_second.k = "Int" THEN FloatFromInt(stack_second.n)
                      ELSE stack_second))}
        ELSE {Err(m1, operation_not_supported(ins, stack_first, stack_second))})

\* VMInstance::compute_two_operands: the set of its possible outcomes
compute_two_operands(m, s, ins) ==
    Let(StackPop(m.stack, ins), LAMBDA pop_second :
        IF ~pop_second.ok THEN {Err([m EXCEPT !.stack = pop_second.st], pop_second.err)}
        ELSE Let(StackPop(pop_second.st, ins), LAMBDA pop_first :
            Let([m EXCEPT !.stack = pop_first.st], LAMBDA m1 :
                IF ~pop_first.ok THEN {Err(m1, pop_first.err)}
                ELSE operate(m1, ins, get_variable(m1, s, pop_first.val),
                             get_variable(m1, s, pop_second.val)))))

RECURSIVE pop_args(_, _, _, _, _)
\* do_exec, Code::CallFunction: the loop that pops and resolves arg_count
\* values in the instance's scope: [ok, err, m, args]
pop_args(m, instance, ins, arg_count, args) ==
    IF arg_count = 0 THEN [ok |-> TRUE, err |-> NoError, m |-> m, args |-> args]
    ELSE Let(StackPop(m.stack, ins), LAMBDA var :
         Let([m EXCEPT !.stack = var.st], LAMBDA m1 :
             IF ~var.ok THEN [ok |-> FALSE, err |-> var.err, m |-> m1, args |-> args]
             ELSE pop_args(m1, instance, ins, arg_count - 1,
                           Append(args, get_variable(m1, instance, var.val)))))

RECURSIVE bind_parametersAsPopped(_, _, _, _, _)
\* A binding loop that pairs pars[i] with args[i], the order of the pops
bind_parametersAsPopped(scps, instance, pars, args, i) ==
    IF i >= Len(pars) THEN scps
    ELSE bind_parametersAsPopped(
             scope_set_variable(scps, instance, pars[i + 1], args[i + 1]),
             instance, pars, args, i + 1)

RECURSIVE bind_parameters(_, _, _, _, _)
\* do_exec, Code::CallFunction: the loop that binds pars[i] (from 0) to
\* args[pars.len() - 1 - i] in the instance's scope
bind_parameters(scps, instance, pars, args, i) ==
    IF i >= Len(pars) THEN scps
    ELSE bind_parameters(
             scope_set_variable(scps, instance, pars[i + 1], args[(Len(pars) - 1 - i) + 1]),
             instance, pars, args, i + 1)

\* The outcome of call_function_enter: an outcome with the callee's position
\* and the values the handler keeps hold of while the body runs
Entered(o, position, held) ==
    [kind |-> o.kind, err |-> o.err, m |-> o.m, position |-> position, held |-> held]

\* A match that lets a call with more arguments than parameters through
enter_functionLenient(mf, instance, ins, prog, args, func, resolved) ==
    IF resolved.k # "Function"
    THEN Entered(Err(mf, with_description(
                             Error(ins.offset, ins.width, "InvalidCast"),
                             Description("could not be cast to [Function] type", "",
                                         <<func>>))),
                 0, <<>>)
    ELSE Let(prog[resolved.n + 1], LAMBDA target :
        IF target.code # "PushFunction"
        THEN Entered(Err(mf, Error(ins.offset, ins.width, "InvalidFunctionValue")), 0, <<>>)
        ELSE IF Len(target.pars) > Len(args)
        THEN Entered(Err(mf, Error(ins.offset, ins.width, "MismatchedArgumentCount")),
                     0, <<>>)
        ELSE Entered(Ok([mf EXCEPT !.scopes =
                            bind_parameters(mf.scopes, instance, target.pars,
                                            SubSeq(args, Len(args) - Len(target.pars) + 1,
                                                   Len(args)), 0)]),
                     resolved.n, args \o <<func, resolved>>))

\* do_exec, Code::CallFunction, the match on the resolved callee: the
\* parameter count is checked, then the parameters are bound
enter_function(mf, instance, ins, prog, args, func, resolved) ==
    IF resolved.k # "Function"
    THEN Entered(Err(mf, with_description(
                             Error(ins.offset, ins.width, "InvalidCast"),
                             Description("could not be cast to [Function] type", "",
                                         <<func>>))),
                 0, <<>>)
    ELSE Let(prog[resolved.n + 1], LAMBDA target :
        IF target.code # "PushFunction"
        THEN Entered(Err(mf, Error(ins.offset, ins.width, "InvalidFunctionValue")), 0, <<>>)
        ELSE IF Len(target.pars) # Len(args)
        THEN Entered(Err(mf, Error(ins.offset, ins.width, "MismatchedArgumentCount")),
                     0, <<>>)
        ELSE Entered(Ok([mf EXCEPT !.scopes =
                            bind_parameters(mf.scopes, instance, target.pars, args, 0)]),
                     resolved.n, args \o <<func, resolved>>))

\* do_exec, Code::CallFunction, from the return of the argument block to the
\* start of the body: the argument count and the arguments are popped, the
\* callee is popped and resolved in the caller's scope s, the parameters are
\* bound. An "ok" outcome carries the callee's position and the values the
\* handler keeps hold of while the body runs (args, func and its resolution).
call_function_enter(m, s, instance, ins, prog) ==
    Let(StackPop(m.stack, ins), LAMBDA count :
    Let([m EXCEPT !.stack = count.st], LAMBDA mc :
        IF ~count.ok THEN Entered(Err(mc, count.err), 0, <<>>)
        ELSE IF count.val.k # "Int"
        THEN Entered(Err(mc, Error(ins.offset, ins.width, "InvalidArgumentCountType")),
                     0, <<>>)
        ELSE \* `*i as usize`: a negative count becomes one no stack can serve
             Let(pop_args(mc, instance, ins,
                          IF count.val.n < 0 THEN STACK_SIZE ELSE count.val.n, <<>>),
                 LAMBDA pa :
             IF ~pa.ok THEN Entered(Err(pa.m, pa.err), 0, <<>>)
             ELSE Let(StackPop(pa.m.stack, ins), LAMBDA func :
                  Let([pa.m EXCEPT !.stack = func.st], LAMBDA mf :
                      IF ~func.ok THEN Entered(Err(mf, func.err), 0, <<>>)
                      ELSE enter_function(mf, instance, ins, prog, pa.args, func.val,
                                          get_variable(mf, s, func.val)))))))

\* do_exec, Code::CallFunction, after the body returned: the value on top of
\* the stack, if there is one, is resolved in the instance's scope and pushed
call_function_leave(m, instance, ins) ==
    Let(StackPop(m.stack, ins), LAMBDA val :
        Let([m EXCEPT !.stack = val.st], LAMBDA m1 :
            IF val.ok THEN push(m1, ins, get_variable(m1, instance, val.val))
            ELSE Ok(m1)))

\* An exec that renders the popped value as it is, a placeholder included
exec_resultUnresolved(m, s) ==
    Let(StackPop(m.stack, Instruction(0, 0, "Null")), LAMBDA v :
        Let([m EXCEPT !.stack = v.st], LAMBDA m1 :
            [m |-> m1, val |-> IF v.ok THEN v.val ELSE NULL]))

\* VMInstance::exec after do_exec: the popped value, resolved, or Null:
\* [m, val]
exec_result(m, s) ==
    Let(StackPop(m.stack, Instruction(0, 0, "Null")), LAMBDA v :
        Let([m EXCEPT !.stack = v.st], LAMBDA m1 :
            [m |-> m1, val |-> IF v.ok THEN get_variable(m1, s, v.val) ELSE NULL]))

\* ------------------------------------------------------------------------
\* The state machine: Lang::run (main.rs) feeds lines to VM::exec, and
\* do_exec runs one instruction per step.
\* ------------------------------------------------------------------------

vars == <<program, stack, pool, scopes, frames, instruction_count, next_id,
          status, returned, line, runs, sres, hres>>

\* The machine state the handlers work on
M == [stack |-> stack, pool |-> pool, scopes |-> scopes, next_id |-> next_id]

\* A do_exec invocation: index is its loop variable, scope the Scope of the
\* VMInstance it runs on, kind what called it ("root": VMInstance::exec,
\* "args" and "body": the two calls of the CallFunction handler), held the
\* Rc values its CallFunction handler holds while the body runs. base
\* records the stack depth at which the invocation started; no handler
\* reads it.
Frame(index, scope, kind, base) ==
    [index |-> index, scope |-> scope, kind |-> kind, held |-> <<>>, base |-> base]

Top == frames[Len(frames)]

\* do_exec: `index >= program.len()` or Code::Return ends the loop
AtBreak ==
    IF Top.index >= Len(program) THEN TRUE
    ELSE program[Top.index + 1].code = "Return"

\* The do_exec invocation whose CallFunction handler started the innermost
Caller == frames[Len(frames) - 1]

\* The instruction the loop of the innermost do_exec is at
Cur == program[Top.index + 1]

\* The innermost do_exec is about to execute an instruction with one of codes
Executing(codes) ==
    /\ status = "exec"
    /\ frames # <<>>
    /\ Top.index < Len(program)
    /\ Cur.code \in codes

NoResult == [ok |-> TRUE, val |-> NoneV, err |-> NoError]

SInitial == [op |-> "new", ok |-> TRUE, err |-> NoError, val |-> NoneV, pops |-> 0]

HInitial == [op |-> "new"]

\* VM::new, Lang::new
Init ==
    /\ program = <<>>
    /\ stack = StackNew
    /\ pool = <<>>
    /\ scopes = <<>>
    /\ frames = <<>>
    /\ instruction_count = 0
    /\ next_id = 1
    /\ status = "idle"
    /\ returned = NoResult
    /\ line = <<>>
    /\ runs = 0
    /\ sres = SInitial
    /\ hres = HInitial

\* An end of iteration that sweeps past GC_INSTRUCTION_COUNT and lets the
\* counter run on
AdvanceWithoutReset(m, fr) ==
    /\ instruction_count' = instruction_count + 1
    /\ frames' = [fr EXCEPT ![Len(fr)].index = @ + 1]
    /\ pool' = IF instruction_count + 1 > GC_INSTRUCTION_COUNT
               THEN scope_garbage(m, [fr EXCEPT ![Len(fr)].index = @ + 1]).pool
               ELSE m.pool
    /\ stack' = m.stack
    /\ scopes' = m.scopes
    /\ next_id' = m.next_id
    /\ UNCHANGED <<program, status, returned, line, runs, sres, hres>>

\* The end of one iteration of the loop of do_exec (vm/mod.rs 340-346): the
\* shared counter and the index advance, and past GC_INSTRUCTION_COUNT the
\* pool is swept. fr holds the frames as the instruction left them.
Advance(m, fr) ==
    /\ instruction_count' = IF instruction_count + 1 > GC_INSTRUCTION_COUNT THEN 0
                            ELSE instruction_count + 1
    /\ frames' = [fr EXCEPT ![Len(fr)].index = @ + 1]
    /\ pool' = IF instruction_count + 1 > GC_INSTRUCTION_COUNT
               THEN scope_garbage(m, [fr EXCEPT ![Len(fr)].index = @ + 1]).pool
               ELSE m.pool
    /\ stack' = m.stack
    /\ scopes' = m.scopes
    /\ next_id' = m.next_id
    /\ UNCHANGED <<program, status, returned, line, runs, sres, hres>>

\* An Err handed up by `?` through every do_exec to Lang::run: the call
\* instances (and their Scopes) are dropped, Stack and Pool stay as they are.
Abort(m, e) ==
    /\ stack' = m.stack
    /\ pool' = m.pool
    /\ scopes' = SubSeq(m.scopes, 1, 2)
    /\ next_id' = m.next_id
    /\ frames' = <<>>
    /\ status' = "idle"
    /\ returned' = [ok |-> FALSE, val |-> NoneV, err |-> e]
    /\ UNCHANGED <<program, instruction_count, line, runs, sres, hres>>

\* A panic of the Rust runtime: the process ends.
Panic(m) ==
    /\ status' = "panic"
    /\ UNCHANGED <<program, stack, pool, scopes, frames, instruction_count, next_id,
                   returned, line, runs, sres, hres>>

\* What an outcome of a handler that is followed by the end of the loop
\* iteration does to the state
Apply(o, fr) ==
    CASE o.kind = "ok" -> Advance(o.m, fr)
      [] o.kind = "err" -> Abort(o.m, o.err)
      [] o.kind = "panic" -> Panic(o.m)

\* Lang::run in Mode::Run, up to the compiled code: lexer.lex(..)?,
\* parser.parse(..)?, compiler.compile(..)?: [ok, err, list]
Compiled(code) ==
    Let(lex(code), LAMBDA lexed :
        IF ~lexed.ok THEN CErr(lexed.err)
        ELSE Let(parse(lexed.list), LAMBDA parsed :
                 IF ~parsed.ok THEN CErr(parsed.err)
                 ELSE compile(parsed.ast)))

\* A run whose VM::exec makes a new root Scope and root instance every time
RunFresh(code) ==
    /\ status = "idle"
    /\ line' = code
    /\ runs' = runs + 1
    /\ Let(Compiled(code), LAMBDA compiled :
           IF ~compiled.ok
           THEN /\ returned' = [ok |-> FALSE, val |-> NoneV, err |-> compiled.err]
                /\ UNCHANGED <<program, stack, pool, scopes, frames,
                               instruction_count, next_id, status, sres, hres>>
           ELSE /\ program' = program \o compiled.list
                /\ scopes' = <<ScopeNew(0), ScopeNew(1)>>
                /\ frames' = <<Frame(Len(program), 2, "root", stack.stacki)>>
                /\ status' = "exec"
                /\ returned' = NoResult
                /\ UNCHANGED <<stack, pool, instruction_count, next_id, sres, hres>>)

\* A run that executes the newly compiled code as a Program of its own
\* instead of appending it
RunReplacing(code) ==
    /\ status = "idle"
    /\ line' = code
    /\ runs' = runs + 1
    /\ Let(Compiled(code), LAMBDA compiled :
           IF ~compiled.ok
           THEN /\ returned' = [ok |-> FALSE, val |-> NoneV, err |-> compiled.err]
                /\ UNCHANGED <<program, stack, pool, scopes, frames,
                               instruction_count, next_id, status, sres, hres>>
           ELSE /\ program' = compiled.list
                /\ scopes' = IF scopes = <<>> THEN <<ScopeNew(0), ScopeNew(1)>> ELSE scopes
                /\ frames' = <<Frame(0, 2, "root", stack.stacki)>>
                /\ status' = "exec"
                /\ returned' = NoResult
                /\ UNCHANGED <<stack, pool, instruction_count, next_id, sres, hres>>)

\* Lang::run in Mode::Run: lex, parse, compile, append, VM::exec (which on
\* its first call makes the root Scope and the root instance); the
\* instructions then run step by step.
Run(code) ==
    /\ status = "idle"
    /\ line' = code
    /\ runs' = runs + 1
    /\ Let(Compiled(code), LAMBDA compiled :
           IF ~compiled.ok
           THEN /\ returned' = [ok |-> FALSE, val |-> NoneV, err |-> compiled.err]
                /\ UNCHANGED <<program, stack, pool, scopes, frames,
                               instruction_count, next_id, status, sres, hres>>
           ELSE /\ program' = program \o compiled.list
                /\ scopes' = IF scopes = <<>> THEN <<ScopeNew(0), ScopeNew(1)>> ELSE scopes
                /\ frames' = <<Frame(Len(program), 2, "root", stack.stacki)>>
                /\ status' = "exec"
                /\ returned' = NoResult
                /\ UNCHANGED <<stack, pool, instruction_count, next_id, sres, hres>>)

\* do_exec, Code::PushNum | Code::PushFloat | Code::PushString
ExecPushLiteral ==
    /\ Executing({"PushNum", "PushFloat", "PushString"})
    /\ Apply(push_created(M, Cur, LiteralValue(Cur)), frames)

\* A PushVar that reads the scope: it pushes the value the name is bound to
\* at that moment, the placeholder only where the name is unbound
ExecPushVarEager ==
    /\ Executing({"PushVar"})
    /\ Apply(Let(scope_get_variable(scopes, Top.scope, Cur.name), LAMBDA r :
                 IF r.some THEN push(M, Cur, r.val)
                 ELSE push_created(M, Cur, VVariable(Cur.name))),
             frames)

\* do_exec, Code::PushVar
ExecPushVar ==
    /\ Executing({"PushVar"})
    /\ Apply(push_created(M, Cur, VVariable(Cur.name)), frames)

\* do_exec, Code::Add | Code::Subtract | Code::Multiply | Code::Divide
ExecArithmetic ==
    /\ Executing({"Add", "Subtract", "Multiply", "Divide"})
    /\ \E o \in compute_two_operands(M, Top.scope, Cur) : Apply(o, frames)

\* do_exec, Code::Assign
ExecAssign ==
    /\ Executing({"Assign"})
    /\ Apply(assign(M, Top.scope, Cur), frames)

\* A PushFunction that goes on with the first instruction of the body
ExecPushFunctionFallingThrough ==
    /\ Executing({"PushFunction"})
    /\ Apply(push_created(M, Cur, VFunction(Top.index)), frames)

\* do_exec, Code::PushFunction: the value is pushed and the body skipped
ExecPushFunction ==
    /\ Executing({"PushFunction"})
    /\ Apply(push_created(M, Cur, VFunction(Top.index)),
             [frames EXCEPT ![Len(frames)].index = @ + Cur.body_len])

\* A CallFunction whose new instance is a child of the root instance's Scope
ExecCallFunctionRootChild ==
    /\ Executing({"CallFunction"})
    /\ IF Len(frames) >= MaxDepth
       THEN Panic(M)
       ELSE /\ scopes' = Append(scopes, ScopeNew(2))
            /\ frames' = Append(frames, Frame(Top.index + 1, Len(scopes) + 1, "args",
                                              stack.stacki))
            /\ UNCHANGED <<program, stack, pool, instruction_count, next_id, status,
                           returned, line, runs, sres, hres>>

\* do_exec, Code::CallFunction, first part: a new instance (a child Scope of
\* the caller's) starts do_exec on the argument block. do_exec calls itself
\* on the native stack: past MaxDepth nested invocations that stack is
\* exhausted and the process ends.
ExecCallFunction ==
    /\ Executing({"CallFunction"})
    /\ IF Len(frames) >= MaxDepth
       THEN Panic(M)
       ELSE /\ scopes' = Append(scopes, ScopeNew(Top.scope))
            /\ frames' = Append(frames, Frame(Top.index + 1, Len(scopes) + 1, "args",
                                              stack.stacki))
            /\ UNCHANGED <<program, stack, pool, instruction_count, next_id, status,
                           returned, line, runs, sres, hres>>

\* do_exec, Code::CallFunction, second part: the argument block returned;
\* the call is set up and the same instance starts do_exec on the body
ExecCallArguments ==
    /\ status = "exec"
    /\ Len(frames) >= 2
    /\ Top.kind = "args"
    /\ AtBreak
    /\ Let(call_function_enter(M, Caller.scope, Top.scope, program[Caller.index + 1],
                                program), LAMBDA o :
           IF o.kind = "err" THEN Abort(o.m, o.err)
           ELSE /\ stack' = o.m.stack
                /\ pool' = o.m.pool
                /\ scopes' = o.m.scopes
                /\ next_id' = o.m.next_id
                /\ frames' = [frames EXCEPT
                                 ![Len(frames) - 1].held = o.held,
                                 ![Len(frames)] = Frame(o.position + 1, Top.scope, "body",
                                                        o.m.stack.stacki)]
                /\ UNCHANGED <<program, instruction_count, status, returned, line, runs,
                               sres, hres>>)

\* do_exec, Code::CallFunction, third part: the body returned; its value is
\* handed to the caller, the instance is dropped and the caller's loop goes
\* on behind the argument block
ExecCallReturn ==
    /\ status = "exec"
    /\ Len(frames) >= 2
    /\ Top.kind = "body"
    /\ AtBreak
    /\ Apply([call_function_leave(M, Top.scope, program[Caller.index + 1]) EXCEPT
                 !.m.scopes = SubSeq(@, 1, Top.scope - 1)],
             [SubSeq(frames, 1, Len(frames) - 1) EXCEPT
                 ![Len(frames) - 1].held = <<>>,
                 ![Len(frames) - 1].index = @ + program[Caller.index + 1].args_len])

\* do_exec, Code::Pop
ExecPop ==
    /\ Executing({"Pop"})
    /\ Apply(Let(StackPop(stack, Cur), LAMBDA r :
                 IF r.ok THEN Ok([M EXCEPT !.stack = r.st])
                 ELSE Err([M EXCEPT !.stack = r.st], r.err)),
             frames)

\* A default arm that unwinds the Stack to where the invocation started
ExecUnimplementedUnwinding ==
    /\ Executing({"Null", "PushNull", "PushList"})
    /\ Abort([M EXCEPT !.stack.stacki = Top.base],
             with_description(unimplemented(Cur.offset, Cur.width),
                              Description("Operation not supported", Cur.code, <<>>)))

\* do_exec, the default arm: an instruction without a handler
ExecUnimplemented ==
    /\ Executing({"Null", "PushNull", "PushList"})
    /\ Abort(M, with_description(unimplemented(Cur.offset, Cur.width),
                                 Description("Operation not supported", Cur.code, <<>>)))

\* VMInstance::exec after the root do_exec ended: the result is popped,
\* resolved and rendered; Lang::run returns it
ExecFinish ==
    /\ status = "exec"
    /\ Len(frames) = 1
    /\ AtBreak
    /\ Let(exec_result(M, Top.scope), LAMBDA r :
           /\ stack' = r.m.stack
           /\ returned' = [ok |-> TRUE, val |-> r.val, err |-> NoError]
           /\ frames' = <<>>
           /\ status' = "idle"
           /\ UNCHANGED <<program, pool, scopes, instruction_count, next_id, line, runs,
                          sres, hres>>)

\* VM::garbage (the shell's $gc), between two lines
Garbage ==
    /\ status = "idle"
    /\ scopes # <<>>
    /\ pool' = scope_garbage(M, frames).pool
    /\ UNCHANGED <<program, stack, scopes, frames, instruction_count, next_id,
                   status, returned, line, runs, sres, hres>>

\* One step of do_exec, whatever the instruction
Step ==
    \/ ExecPushLiteral
    \/ ExecPushVar
    \/ ExecArithmetic
    \/ ExecAssign
    \/ ExecPushFunction
    \/ ExecCallFunction
    \/ ExecCallArguments
    \/ ExecCallReturn
    \/ ExecPop
    \/ ExecUnimplemented
    \/ ExecFinish

\* ------------------------------------------------------------------------
\* Stack harness: any caller of push and pop on one Stack.
\* ------------------------------------------------------------------------

\* The instruction handed to the range check by the harness.
HarnessIns == Instruction(0, 0, "Null")

\* The values the harness pushes.
HarnessVals(depth) ==
    IF depth < VarDepth THEN {VInt(7), VString(<<"s">>)} ELSE {VInt(depth % 3)}

SPush ==
    \E v \in HarnessVals(stack.stacki) :
        LET r == StackPush(stack, HarnessIns, v)
        IN  /\ stack' = r.st
            /\ sres' = [op |-> "push", ok |-> r.ok, err |-> r.err, val |-> v,
                        pops |-> sres.pops]
            /\ UNCHANGED <<program, pool, scopes, frames, instruction_count, next_id,
                           status, returned, line, runs, hres>>

SPop ==
    /\ sres.pops < MaxPops
    /\ LET r == StackPop(stack, HarnessIns)
       IN  /\ stack' = r.st
           /\ sres' = [op |-> "pop", ok |-> r.ok, err |-> r.err, val |-> r.val,
                       pops |-> sres.pops + 1]
           /\ UNCHANGED <<program, pool, scopes, frames, instruction_count, next_id,
                          status, returned, line, runs, hres>>

SNext == SPush \/ SPop

StackSpec == Init /\ [][SNext]_vars

\* ------------------------------------------------------------------------
\* The shell: a session of at most MaxLines lines, each one of ReplLines.
\* ------------------------------------------------------------------------

RECURSIVE Repeat(_, _)
\* text, n times
Repeat(text, n) == IF n = 0 THEN <<>> ELSE text \o Repeat(text, n - 1)

\* A line of more than GC_INSTRUCTION_COUNT instructions: 1; (25 times) a
LongLine == Repeat(<<"1", ";">>, GC_INSTRUCTION_COUNT \div 2) \o <<"a">>

\* A call that assigns, in its argument block and in its body, to a name
\* the caller has bound
\* a = 1; ((x) => { a = 2; x })(a = 3); a
ShadowLine ==
    <<"a", " ", "=", " ", "1", ";", " ", "(", "(", "x", ")", " ", "=", ">", " ", "{", " ", "a", " ", "=", " ", "2", ";", " ", "x", " ", "}", ")", "(",
    "a", " ", "=", " ", "3", ")", ";", " ", "a">>

\* A line whose instruction past GC_INSTRUCTION_COUNT lies in the body of a
\* call: 1; (23 times) ((x)=>{a=2;x})(7)
LongCallLine ==
    Repeat(<<"1", ";">>, GC_INSTRUCTION_COUNT \div 2 - 2)
    \o <<"(", "(", "x", ")", "=", ">", "{", "a", "=", "2", ";", "x", "}", ")", "(", "7", ")">>

ReplLines ==
    \* a = 5
    {<<"a", " ", "=", " ", "5">>} \cup
    \* a
    {<<"a">>} \cup
    \* a = a + 1.5
    {<<"a", " ", "=", " ", "a", " ", "+", " ", "1", ".", "5">>} \cup
    \* f = (x) => { a = 2; x }
    {<<"f", " ", "=", " ", "(", "x", ")", " ", "=", ">", " ", "{", " ", "a", " ", "=", " ", "2", ";", " ", "x", " ", "}">>} \cup
    \* f(3); a
    {<<"f", "(", "3", ")", ";", " ", "a">>} \cup
    {ShadowLine} \cup
    \* 1 / 0
    {<<"1", " ", "/", " ", "0">>} \cup
    \* "s" + 1
    {<<"\"", "s", "\"", " ", "+", " ", "1">>} \cup
    \* 2.5 * b
    {<<"2", ".", "5", " ", "*", " ", "b">>} \cup
    \* 1 = 2
    {<<"1", " ", "=", " ", "2">>} \cup
    \* null
    {<<"n", "u", "l", "l">>} \cup
    \* f - 1
    {<<"f", " ", "-", " ", "1">>} \cup
    \* 2147483647 + 1
    {<<"2", "1", "4", "7", "4", "8", "3", "6", "4", "7", " ", "+", " ", "1">>} \cup
    \* 7 / 2 - 1.5 * 2
    {<<"7", " ", "/", " ", "2", " ", "-", " ", "1", ".", "5", " ", "*", " ", "2">>} \cup
    \* c = b
    {<<"c", " ", "=", " ", "b">>} \cup
    {LongLine} \cup
    {LongCallLine} \cup
    \* 1;
    {<<"1", ";">>}

ReplRun ==
    /\ runs < MaxLines
    /\ \E code \in ReplLines : Run(code)

Next == ReplRun \/ Step \/ Garbage

Spec == Init /\ [][Next]_vars

\* ------------------------------------------------------------------------
\* Arithmetic: one line, an expression of at most MaxOperands integer
\* literals, the operators + - * / and at most one pair of parentheses.
\* ------------------------------------------------------------------------

Operands == {<<"0">>, <<"7">>, <<"6", "5", "5", "3", "6">>}

Operators == {"+", "-", "*", "/"}

\* + and - are written between spaces, * and / without
OperatorText(o) == IF o \in {"+", "-"} THEN <<" ", o, " ">> ELSE <<o>>

RECURSIVE ArithText(_, _, _, _)
\* The text of operands ls[k..], operators os and the parentheses around
\* operands g[1] .. g[2] (<<0, 0>>: none)
ArithText(ls, os, g, k) ==
    (IF k = g[1] THEN <<"(">> ELSE <<>>)
    \o ls[k]
    \o (IF k = g[2] THEN <<")">> ELSE <<>>)
    \o (IF k = Len(ls) THEN <<>>
        ELSE OperatorText(os[k]) \o ArithText(ls, os, g, k + 1))

ArithSources ==
    UNION {{ArithText(ls, os, g, 1) :
              ls \in [1 .. n -> Operands],
              os \in [1 .. n - 1 -> Operators],
              g \in {<<0, 0>>} \cup {<<i, i + 1>> : i \in 1 .. n - 1}} :
           n \in 1 .. MaxOperands}

ArithRun ==
    /\ runs = 0
    /\ \E code \in ArithSources : Run(code)

ArithNext == ArithRun \/ ExecPushLiteral \/ ExecArithmetic \/ ExecFinish

ArithSpec == Init /\ [][ArithNext]_vars

\* ------------------------------------------------------------------------
\* Calls: one line, a = 7; ((pars) => body)(args)
\* ------------------------------------------------------------------------

ParameterNames == {<<"x">>, <<"y">>}

ArgumentTexts ==
    {<<"4">>, <<"a">>, <<"\"", "s", "\"">>, <<"y", " ", "=", " ", "3">>}

BodyTexts ==
    {<<"x">>, <<"y">>, <<"x", " ", "+", " ", "1">>,
     <<"{", " ", "y", " ", "=", " ", "9", ";", " ", "x", " ", "}">>,
     <<"{", " ", "x", ";", " ", "}">>,
     <<"{", "}">>}

RECURSIVE Joined(_, _)
\* the texts, separated by commas
Joined(texts, k) ==
    IF k > Len(texts) THEN <<>>
    ELSE texts[k] \o (IF k < Len(texts) THEN <<",", " ">> ELSE <<>>)
         \o Joined(texts, k + 1)

CallText(pars, body, args) ==
    <<"a", " ", "=", " ", "7", ";", " ", "(", "(">> \o Joined(pars, 1)
    \o <<")", " ", "=", ">", " ">> \o body \o <<")", "(">> \o Joined(args, 1) \o <<")">>

CallSources ==
    UNION {{CallText(pars, body, args) :
              pars \in [1 .. n -> ParameterNames],
              body \in BodyTexts,
              args \in [1 .. m -> ArgumentTexts]} :
           <<n, m>> \in (0 .. MaxParams) \X (0 .. MaxArgs)}

CallRun ==
    /\ runs = 0
    /\ \E code \in CallSources : Run(code)

CallNext ==
    \/ CallRun
    \/ ExecPushLiteral
    \/ ExecPushVar
    \/ ExecArithmetic
    \/ ExecAssign
    \/ ExecPushFunction
    \/ ExecCallFunction
    \/ ExecCallArguments
    \/ ExecCallReturn
    \/ ExecPop
    \/ ExecFinish

CallSpec == Init /\ [][CallNext]_vars

\* ------------------------------------------------------------------------
\* Recursion: sessions of at most MaxLines lines that define and call a
\* function that returns its argument and one that calls itself. The loop
\* of do_exec runs without suspension until exec returns, so its steps are
\* taken as long as one is possible; the shell's user need not type a line.
\* ------------------------------------------------------------------------

RecLines ==
    \* f = (x) => f(x)
    {<<"f", " ", "=", " ", "(", "x", ")", " ", "=", ">", " ", "f", "(", "x", ")">>} \cup
    \* f(1)
    {<<"f", "(", "1", ")">>} \cup
    \* h = (x) => x
    {<<"h", " ", "=", " ", "(", "x", ")", " ", "=", ">", " ", "x">>} \cup
    \* h(2); f
    {<<"h", "(", "2", ")", ";", " ", "f">>}

RecRun ==
    /\ runs < MaxLines
    /\ \E code \in RecLines : Run(code)

RecStep ==
    \/ ExecPushLiteral
    \/ ExecPushVar
    \/ ExecAssign
    \/ ExecPushFunction
    \/ ExecCallFunction
    \/ ExecCallArguments
    \/ ExecCallReturn
    \/ ExecPop
    \/ ExecFinish

RecNext == RecRun \/ RecStep

RecSpec == Init /\ [][RecNext]_vars /\ WF_vars(RecStep)

\* ------------------------------------------------------------------------
\* Scope harness: at most MaxScopes Scopes, each a child of an earlier one,
\* bind the names of ScopeNames; any Scope is asked for any name, and the
\* VM resolves any value through any Scope.
\* ------------------------------------------------------------------------

ScopeNames == {<<"a">>, <<"b">>}

\* Scope::initial
ScopeInitial ==
    /\ scopes = <<>>
    /\ scopes' = <<ScopeNew(0)>>
    /\ hres' = HInitial
    /\ UNCHANGED <<program, stack, pool, frames, instruction_count, next_id, status,
                   returned, line, runs, sres>>

\* Scope::new(parent)
ScopeChild ==
    /\ Len(scopes) \in 1 .. MaxScopes - 1
    /\ \E parent \in 1 .. Len(scopes) : scopes' = Append(scopes, ScopeNew(parent))
    /\ hres' = HInitial
    /\ UNCHANGED <<program, stack, pool, frames, instruction_count, next_id, status,
                   returned, line, runs, sres>>

\* Scope::set_variable on Scope s; the value tells which Scope bound it
ScopeSet ==
    /\ \E s \in 1 .. Len(scopes) : \E name \in ScopeNames :
          scopes' = scope_set_variable(scopes, s, name, VInt(s))
    /\ hres' = HInitial
    /\ UNCHANGED <<program, stack, pool, frames, instruction_count, next_id, status,
                   returned, line, runs, sres>>

\* Scope::get_variable on Scope s
ScopeGet ==
    /\ \E s \in 1 .. Len(scopes) : \E name \in ScopeNames :
          Let(scope_get_variable(scopes, s, name), LAMBDA r :
              hres' = [op |-> "get", s |-> s, name |-> name, some |-> r.some,
                       val |-> r.val])
    /\ UNCHANGED <<program, stack, pool, scopes, frames, instruction_count, next_id,
                   status, returned, line, runs, sres>>

\* VMInstance::get_variable of an instance whose Scope is s, on a Variable
\* placeholder or on another value
ScopeResolve ==
    /\ \E s \in 1 .. Len(scopes) :
       \E v \in {VVariable(name) : name \in ScopeNames} \cup {VString(<<"a">>)} :
          hres' = [op |-> "resolve", s |-> s, of |-> v, val |-> get_variable(M, s, v)]
    /\ UNCHANGED <<program, stack, pool, scopes, frames, instruction_count, next_id,
                   status, returned, line, runs, sres>>

ScopeNext == ScopeInitial \/ ScopeChild \/ ScopeSet \/ ScopeGet \/ ScopeResolve

ScopeSpec == Init /\ [][ScopeNext]_vars

\* ------------------------------------------------------------------------
\* Compiler harness: compile is applied to ASTs built node by node, so that
\* a Binary node may carry any operator token, also those no source text
\* parses to. The innermost expression is a literal, an identifier, an
\* empty expression or a Binary; up to MaxNest expressions enclose it, as a
\* function body, a call argument, a callee, a list item or an operand.
\* ------------------------------------------------------------------------

HarnessOperators ==
    {"Plus", "Minus", "Asterix", "FSlash", "Equals",
     "DoubleAsterix", "DoubleEquals", "PlusEquals", "Comma"}

\* The width of an operator's text
OperatorWidth(operator) ==
    IF operator \in {"DoubleAsterix", "DoubleEquals", "PlusEquals", "MinusEquals"} THEN 2
    ELSE 1

HLiteral(offset) == [Expr("Literal", offset, 1) EXCEPT !.lit = VInt(1)]

HIdentifier(offset) == [Expr("Identifier", offset, 1) EXCEPT !.name = <<"a">>]

\* left operator right, the operator at offset
HBinary(operator, left, right, offset) ==
    [Expr("Binary", left.offset, right.offset + right.width - left.offset) EXCEPT
        !.operator = operator, !.op_offset = offset,
        !.op_width = OperatorWidth(operator), !.kids = <<left, right>>]

\* The expressions that enclose expression e once; level tells the
\* positions of the new nodes from those of the enclosed ones
Enclose(e, level) ==
    {e}
    \cup {[Expr("Function", 100 * level, 50) EXCEPT
             !.pars = <<<<"x">>>>, !.body = <<Statement(e, end)>>] : end \in BOOLEAN}
    \cup {[Expr("FunctionCall", 100 * level, 50) EXCEPT
             !.kids = <<HIdentifier(100 * level), e>>]}
    \cup {[Expr("FunctionCall", 100 * level, 50) EXCEPT
             !.kids = <<e, HLiteral(100 * level + 40)>>]}
    \cup {[Expr("List", 100 * level, 50) EXCEPT !.kids = <<HLiteral(100 * level + 1), e>>]}
    \cup {HBinary(operator, e, HLiteral(100 * level + 42), 100 * level + 40) :
             operator \in HarnessOperators}
    \cup {HBinary(operator, HLiteral(100 * level), e, 100 * level + 2) :
             operator \in HarnessOperators}

RECURSIVE HarnessExpressions(_)
\* The expressions with at most n enclosing ones
HarnessExpressions(n) ==
    IF n = 0
    THEN {HLiteral(10), HIdentifier(10), Expr("Empty", 10, 0)}
         \cup {HBinary(operator, HIdentifier(10), HLiteral(14), 12) :
                  operator \in HarnessOperators}
    ELSE UNION {Enclose(e, n) : e \in HarnessExpressions(n - 1)}

\* One statement, or one statement after an innermost one
HarnessASTs ==
    {<<Statement(e, end)>> : e \in HarnessExpressions(MaxNest), end \in BOOLEAN}
    \cup {<<Statement(first, TRUE), Statement(e, FALSE)>> :
             first \in HarnessExpressions(0), e \in HarnessExpressions(MaxNest)}

\* Compiler::compile on an AST, once
CompileRun ==
    /\ hres = HInitial
    /\ \E ast \in HarnessASTs : hres' = [op |-> "compile", ast |-> ast, result |-> compile(ast)]
    /\ UNCHANGED <<program, stack, pool, scopes, frames, instruction_count, next_id,
                   status, returned, line, runs, sres>>

CompileNext == CompileRun

CompileSpec == Init /\ [][CompileNext]_vars

\* ------------------------------------------------------------------------
\* List literals: sessions of at most MaxLines lines with list literals and
\* the null literal, for which the VM has no handler.
\* ------------------------------------------------------------------------

ListLines ==
    \* [1, 2]
    {<<"[", "1", ",", " ", "2", "]">>} \cup
    \* [a, "s"]
    {<<"[", "a", ",", " ", "\"", "s", "\"", "]">>} \cup
    \* []
    {<<"[", "]">>} \cup
    \* 1; [2.5]
    {<<"1", ";", " ", "[", "2", ".", "5", "]">>} \cup
    \* [1, [2]]
    {<<"[", "1", ",", " ", "[", "2", "]", "]">>} \cup
    \* [a = 5, 2]
    {<<"[", "a", " ", "=", " ", "5", ",", " ", "2", "]">>} \cup
    \* 3; null
    {<<"3", ";", " ", "n", "u", "l", "l">>} \cup
    \* a = 5
    {<<"a", " ", "=", " ", "5">>}

ListRun ==
    /\ runs < MaxLines
    /\ \E code \in ListLines : Run(code)

ListNext ==
    \/ ListRun
    \/ ExecPushLiteral
    \/ ExecPushVar
    \/ ExecAssign
    \/ ExecPop
    \/ ExecUnimplemented
    \/ ExecFinish

ListSpec == Init /\ [][ListNext]_vars

\* ------------------------------------------------------------------------
\* Lexer harness: the first two passes of Lexer::lex on a text of at most
\* MaxPieces pieces.
\* ------------------------------------------------------------------------

\* The pieces the texts are made of: the quote, the slash, the comment
\* opener, the backslash, the end of line and a letter
Pieces == {<<"\"">>, <<"/">>, <<"/", "/">>, <<"\\">>, <<"\n">>, <<"a">>}

RECURSIVE Flatten(_)
Flatten(ps) == IF ps = <<>> THEN <<>> ELSE Head(ps) \o Flatten(Tail(ps))

\* The texts of at most max pieces
LexTexts(max) == UNION {{Flatten(ps) : ps \in [1 .. n -> Pieces]} : n \in 0 .. max}

\* Lexer::lex up to the comments: strip_strings, then strip_comments on
\* every Rest block
LexPasses ==
    /\ hres = HInitial
    /\ \E text \in LexTexts(MaxPieces) :
        Let(strip_strings(Block("Rest", "Rest", text, 0, NoneV)), LAMBDA w_strings :
            /\ hres' = [op |-> "lex", text |-> text, w_strings |-> w_strings,
                        w_comments |-> IF w_strings.ok
                                       THEN replace_rest(w_strings.list, strip_comments)
                                       ELSE w_strings]
            /\ UNCHANGED <<program, stack, pool, scopes, frames, instruction_count,
                           next_id, status, returned, line, runs, sres>>)

LexNext == LexPasses

LexSpec == Init /\ [][LexNext]_vars

\* ------------------------------------------------------------------------
\* Compiler harness for nested function literals and calls: ASTs whose
\* innermost expression is enclosed at most MaxCallNest times.
\* ------------------------------------------------------------------------

\* The expressions that enclose expression e once in a function literal
\* (no, one or two statements; a last statement with or without separator),
\* in a call (as the callee, as the only argument, as one of two arguments)
\* or in an addition
EncloseInCall(e, level) ==
    {[Expr("Function", 100 * level, 50) EXCEPT
        !.pars = <<<<"x">>>>, !.body = <<Statement(e, end)>>] : end \in BOOLEAN}
    \cup {[Expr("Function", 100 * level, 50) EXCEPT
             !.pars = <<>>,
             !.body = <<Statement(HLiteral(100 * level + 5), TRUE), Statement(e, FALSE)>>]}
    \cup {[Expr("FunctionCall", 100 * level, 50) EXCEPT !.kids = <<e>>]}
    \cup {[Expr("FunctionCall", 100 * level, 50) EXCEPT
             !.kids = <<e, HLiteral(100 * level + 40)>>]}
    \cup {[Expr("FunctionCall", 100 * level, 50) EXCEPT
             !.kids = <<HIdentifier(100 * level), e>>]}
    \cup {[Expr("FunctionCall", 100 * level, 50) EXCEPT
             !.kids = <<HIdentifier(100 * level), e, e>>]}
    \cup {HBinary("Plus", e, HLiteral(100 * level + 42), 100 * level + 40)}

RECURSIVE NestedExpressions(_)
\* The expressions enclosed exactly n times
NestedExpressions(n) ==
    IF n = 0
    THEN {HLiteral(10), HIdentifier(10),
          [Expr("Function", 10, 5) EXCEPT !.pars = <<<<"x">>, <<"y">>>>, !.body = <<>>]}
    ELSE UNION {EncloseInCall(e, n) : e \in NestedExpressions(n - 1)}

\* One statement, or two
NestedASTs ==
    UNION {{<<Statement(e, end)>> : e \in NestedExpressions(n), end \in BOOLEAN}
           \cup {<<Statement(e, TRUE), Statement(e, FALSE)>> : e \in NestedExpressions(n)} :
           n \in 0 .. MaxCallNest}

\* Compiler::compile on an AST of nested functions and calls, once
CompileNested ==
    /\ hres = HInitial
    /\ \E ast \in NestedASTs : hres' = [op |-> "compile", ast |-> ast, result |-> compile(ast)]
    /\ UNCHANGED <<program, stack, pool, scopes, frames, instruction_count, next_id,
                   status, returned, line, runs, sres>>

NestNext == CompileNested

NestSpec == Init /\ [][NestNext]_vars

\* ------------------------------------------------------------------------
\* Placeholders: sessions of at most MaxLines lines in which a name is bound
\* between the PushVar that mentions it and the instruction that consumes
\* the placeholder.
\* ------------------------------------------------------------------------

\* a + (a = 5)
LazyLine == <<"a", " ", "+", " ", "(", "a", " ", "=", " ", "5", ")">>

LazyLines ==
    \* a = 1
    {<<"a", " ", "=", " ", "1">>} \cup
    {LazyLine} \cup
    \* a
    {<<"a">>} \cup
    \* b = a; b + 1
    {<<"b", " ", "=", " ", "a", ";", " ", "b", " ", "+", " ", "1">>} \cup
    \* ((x, y) => x + y)(a, a = 4)
    {<<"(", "(", "x", ",", " ", "y", ")", " ", "=", ">", " ", "x", " ", "+", " ", "y", ")",
       "(", "a", ",", " ", "a", " ", "=", " ", "4", ")">>} \cup
    \* c = (c = 2) + c
    {<<"c", " ", "=", " ", "(", "c", " ", "=", " ", "2", ")", " ", "+", " ", "c">>}

LazyRun ==
    /\ runs < MaxLines
    /\ \E code \in LazyLines : Run(code)

LazyNext ==
    \/ LazyRun
    \/ ExecPushLiteral
    \/ ExecPushVar
    \/ ExecArithmetic
    \/ ExecAssign
    \/ ExecPushFunction
    \/ ExecCallFunction
    \/ ExecCallArguments
    \/ ExecCallReturn
    \/ ExecPop
    \/ ExecFinish

LazySpec == Init /\ [][LazyNext]_vars

\* ------------------------------------------------------------------------
\* The instruction counter: sessions of at most MaxLines lines, some of more
\* than GC_INSTRUCTION_COUNT instructions, with and without calls.
\* ------------------------------------------------------------------------

CountLines ==
    {LongLine} \cup
    {LongCallLine} \cup
    \* ((x) => x)(7)
    {<<"(", "(", "x", ")", "=", ">", "x", ")", "(", "7", ")">>} \cup
    \* 1 = 2
    {<<"1", " ", "=", " ", "2">>}

CountRun ==
    /\ runs < MaxLines
    /\ \E code \in CountLines : Run(code)

CountNext ==
    \/ CountRun
    \/ ExecPushLiteral
    \/ ExecPushVar
    \/ ExecAssign
    \/ ExecPushFunction
    \/ ExecCallFunction
    \/ ExecCallArguments
    \/ ExecCallReturn
    \/ ExecPop
    \/ ExecFinish

CountSpec == Init /\ [][CountNext]_vars

\* ------------------------------------------------------------------------
\* Values of calls: sessions of at most MaxLines lines that call functions
\* whose body leaves a value and functions whose body leaves none.
\* ------------------------------------------------------------------------

ValueLines ==
    \* a = 5
    {<<"a", " ", "=", " ", "5">>} \cup
    \* ((x) => x)(2) + 1
    {<<"(", "(", "x", ")", " ", "=", ">", " ", "x", ")", "(", "2", ")", " ", "+", " ", "1">>} \cup
    \* (() => {})()
    {<<"(", "(", ")", " ", "=", ">", " ", "{", "}", ")", "(", ")">>} \cup
    \* ((x) => { x; })(2)
    {<<"(", "(", "x", ")", " ", "=", ">", " ", "{", " ", "x", ";", " ", "}", ")", "(", "2", ")">>} \cup
    \* 1 + ((x) => {})(2)
    {<<"1", " ", "+", " ", "(", "(", "x", ")", " ", "=", ">", " ", "{", "}", ")", "(", "2", ")">>} \cup
    \* a + ((x) => {})(2)
    {<<"a", " ", "+", " ", "(", "(", "x", ")", " ", "=", ">", " ", "{", "}", ")", "(", "2", ")">>}

ValueRun ==
    /\ runs < MaxLines
    /\ \E code \in ValueLines : Run(code)

ValueNext ==
    \/ ValueRun
    \/ ExecPushLiteral
    \/ ExecPushVar
    \/ ExecArithmetic
    \/ ExecAssign
    \/ ExecPushFunction
    \/ ExecCallFunction
    \/ ExecCallArguments
    \/ ExecCallReturn
    \/ ExecPop
    \/ ExecFinish

ValueSpec == Init /\ [][ValueNext]_vars

\* ------------------------------------------------------------------------
\* Scopes of calls: sessions of at most MaxLines lines whose function bodies
\* mention a name that is neither a parameter nor assigned in the body.
\* ------------------------------------------------------------------------

\* a = 1; f = () => a; ((a) => f())(2)
NestedCallLine ==
    <<"a", " ", "=", " ", "1", ";", " ", "f", " ", "=", " ", "(", ")", " ", "=", ">", " ",
      "a", ";", " ", "(", "(", "a", ")", " ", "=", ">", " ", "f", "(", ")", ")", "(", "2", ")">>

DynLines ==
    {NestedCallLine} \cup
    \* a = 1
    {<<"a", " ", "=", " ", "1">>} \cup
    \* ((x) => a)(a = 3)
    {<<"(", "(", "x", ")", " ", "=", ">", " ", "a", ")", "(", "a", " ", "=", " ", "3", ")">>} \cup
    \* ((x) => a)(5)
    {<<"(", "(", "x", ")", " ", "=", ">", " ", "a", ")", "(", "5", ")">>} \cup
    \* ((x) => x)(a)
    {<<"(", "(", "x", ")", " ", "=", ">", " ", "x", ")", "(", "a", ")">>}

DynRun ==
    /\ runs < MaxLines
    /\ \E code \in DynLines : Run(code)

DynNext ==
    \/ DynRun
    \/ ExecPushLiteral
    \/ ExecPushVar
    \/ ExecAssign
    \/ ExecPushFunction
    \/ ExecCallFunction
    \/ ExecCallArguments
    \/ ExecCallReturn
    \/ ExecPop
    \/ ExecFinish

DynSpec == Init /\ [][DynNext]_vars

\* ------------------------------------------------------------------------
\* What the properties below speak of
\* ------------------------------------------------------------------------

\* The two values on top of the stack: the operands of the instruction
Right == stack.stack[stack.stacki]

Left == stack.stack[stack.stacki - 1]

\* The root instance's Scope, where top-level code binds and reads
RootBindings == scopes[2].variables

\* An error's kind and place, without the text that describes it
Undescribed(e) == [e EXCEPT !.description = NoDescription]

\* ------------------------------------------------------------------------
\* Properties of arithmetic expressions (ArithSpec)
\* ------------------------------------------------------------------------

\* The expression's value by the rules of arithmetic, computed on the text:
\* numbers, operator signs and parentheses are read off the characters; the
\* innermost parentheses are replaced by their value; in a sequence without
\* parentheses the leftmost * or / is applied first, and when none is left
\* the leftmost + or -. A value is [ok, v]; ok is FALSE when a divisor is 0
\* or a result is no i32.

\* An item of the text: a number (sign "") or a sign
RefNumber(v) == [sign |-> "", v |-> v]

RefSign(c) == [sign |-> c, v |-> 0]

RECURSIVE RefItems(_, _, _)
\* the numbers and signs of text[k..]
RefItems(text, k, items) ==
    IF k > Len(text) THEN items
    ELSE IF text[k] = " " THEN RefItems(text, k + 1, items)
    ELSE IF text[k] \in Digits
    THEN IF k > 1 /\ text[k - 1] \in Digits
         THEN RefItems(text, k + 1,
                       [items EXCEPT ![Len(items)].v = @ * 10 + DigitVal(text[k])])
         ELSE RefItems(text, k + 1, Append(items, RefNumber(DigitVal(text[k]))))
    ELSE RefItems(text, k + 1, Append(items, RefSign(text[k])))

RefFits(sign, a, b) ==
    CASE sign = "+" -> IF b >= 0 THEN a <= MaxI32 - b ELSE a >= MinI32 - b
      [] sign = "-" -> IF b >= 0 THEN a >= MinI32 + b ELSE a <= MaxI32 + b
      [] sign = "*" ->
            \/ a = 0
            \/ b = 0
            \/ /\ a # MinI32
               /\ b # MinI32
               /\ \/ Abs(a) <= MaxI32 \div Abs(b)
                  \/ /\ (a < 0) # (b < 0)
                     /\ Abs(a) = (MaxI32 \div Abs(b)) + 1
                     /\ MaxI32 % Abs(b) = Abs(b) - 1
      [] sign = "/" -> b # 0 /\ a # MinI32 /\ b # MinI32

\* a sign b, for operands that fit
RefApply(sign, a, b) ==
    CASE sign = "+" -> a + b
      [] sign = "-" -> a - b
      [] sign = "*" -> a * b
      [] sign = "/" -> IF (a < 0) = (b < 0) THEN Abs(a) \div Abs(b)
                       ELSE -(Abs(a) \div Abs(b))

\* items with the operation at position k replaced by its result
RefApplied(items, k) ==
    SubSeq(items, 1, k - 2)
    \o <<RefNumber(RefApply(items[k].sign, items[k - 1].v, items[k + 1].v))>>
    \o SubSeq(items, k + 2, Len(items))

\* the positions of the given signs in a sequence of items
RefSigns(items, signs) == {k \in 1 .. Len(items) : items[k].sign \in signs}

RECURSIVE RefFlat(_)
\* the value of a sequence number sign number ... without parentheses
RefFlat(items) ==
    IF Len(items) = 1 THEN [ok |-> TRUE, v |-> items[1].v]
    ELSE Let(IF RefSigns(items, {"*", "/"}) # {} THEN RefSigns(items, {"*", "/"})
             ELSE RefSigns(items, {"+", "-"}), LAMBDA signs :
         Let(CHOOSE k \in signs : \A j \in signs : k <= j, LAMBDA k :
             IF RefFits(items[k].sign, items[k - 1].v, items[k + 1].v)
             THEN RefFlat(RefApplied(items, k))
             ELSE [ok |-> FALSE, v |-> 0]))

RECURSIVE RefReduce(_)
\* the value of a sequence with parentheses
RefReduce(items) ==
    Let(RefSigns(items, {"("}), LAMBDA opens :
        IF opens = {} THEN RefFlat(items)
        ELSE Let(Max(opens), LAMBDA open :
             Let(CHOOSE k \in open + 1 .. Len(items) :
                    /\ items[k].sign = ")"
                    /\ \A j \in open + 1 .. k - 1 : items[j].sign # ")", LAMBDA close :
             Let(RefFlat(SubSeq(items, open + 1, close - 1)), LAMBDA inner :
                 IF inner.ok
                 THEN RefReduce(SubSeq(items, 1, open - 1) \o <<RefNumber(inner.v)>>
                                \o SubSeq(items, close + 1, Len(items)))
                 ELSE inner))))

RefValue(text) == RefReduce(RefItems(text, 1, <<>>))

\* C1: when the expression has a value by the rules of arithmetic (no zero
\* divisor, every result an i32), running it neither panics nor fails, and
\* what it returns is the Int of that value.
C1_ArithmeticValue ==
    (runs = 1 /\ status \in {"idle", "panic"}) =>
        Let(RefValue(line), LAMBDA r :
            r.ok => /\ status = "idle"
                    /\ returned.ok
                    /\ returned.val.k = "Int"
                    /\ returned.val.n = r.v)

\* (7 - 65536)/7 has returned -9361
C1_Witness ==
    /\ status = "idle"
    /\ line = <<"(", "7", " ", "-", " ", "6", "5", "5", "3", "6", ")", "/", "7">>
    /\ returned.ok
    /\ returned.val.k = "Int"
    /\ returned.val.n = -9361

\* ------------------------------------------------------------------------
\* Properties of calls (CallSpec)
\* ------------------------------------------------------------------------

\* The argument block of a call has returned: on the stack lie the callee,
\* the arguments in source order and their count
CallSetUp ==
    /\ status = "exec"
    /\ Len(frames) >= 2
    /\ Top.kind = "args"
    /\ AtBreak
    /\ stack.stacki >= 1
    /\ Right.k = "Int"
    /\ Right.n >= 0
    /\ stack.stacki >= Right.n + 2

\* The CallFunction instruction in progress
CallIns == program[Caller.index + 1]

\* The callee, resolved in the caller's Scope
Callee == get_variable(M, Caller.scope, stack.stack[stack.stacki - Right.n - 1])

\* The i-th argument in source order, resolved in the call's Scope
Argument(i) == get_variable(M, Top.scope, stack.stack[stack.stacki - Right.n - 1 + i])

\* The callee is a function of as many parameters as there are arguments
CallMatches ==
    /\ CallSetUp
    /\ Callee.k = "Function"
    /\ program[Callee.n + 1].code = "PushFunction"
    /\ Len(program[Callee.n + 1].pars) = Right.n

\* The body of the call has returned and has left a value
BodyLeftValue ==
    /\ status = "exec"
    /\ Len(frames) >= 2
    /\ Top.kind = "body"
    /\ AtBreak
    /\ stack.stacki > Top.base

\* The step from the argument block into the body binds the parameters in
\* names to their arguments and starts the body on the call's Scope; the
\* step out of a body that left a value puts the resolved value where the
\* callee was.
CallBinds(names(_)) ==
    /\ CallMatches =>
          /\ status' = "exec"
          /\ \A i \in names(program[Callee.n + 1].pars) :
                /\ program[Callee.n + 1].pars[i] \in DOMAIN scopes'[Top.scope].variables
                /\ scopes'[Top.scope].variables[program[Callee.n + 1].pars[i]] = Argument(i)
          /\ Len(frames') = Len(frames)
          /\ frames'[Len(frames)].kind = "body"
          /\ frames'[Len(frames)].scope = Top.scope
          /\ frames'[Len(frames)].index = Callee.n + 1
          /\ frames'[Len(frames)].base = stack.stacki - Right.n - 2
          /\ stack'.stacki = stack.stacki - Right.n - 2
    /\ BodyLeftValue =>
          /\ status' = "exec"
          /\ Len(frames') = Len(frames) - 1
          /\ stack'.stacki = stack.stacki
          /\ stack'.stack[stack'.stacki] = get_variable(M, Top.scope, Right)
          /\ (stack.stacki = Top.base + 1) => stack'.stacki = Top.base + 1

\* C2, as stated: every parameter is bound to the argument of its position.
C2_CallBindsEveryParameter ==
    [][CallBinds(LAMBDA pars : 1 .. Len(pars))]_vars

\* C2, for parameters of pairwise different names: the i-th parameter is
\* bound to the resolved i-th argument, the body runs with these bindings,
\* and its resolved final value takes the callee's place on the stack. (Of
\* parameters of one name the last is the one bound to its argument.)
C2_CallBindsDistinctParameters ==
    [][CallBinds(LAMBDA pars :
                   {i \in 1 .. Len(pars) :
                      \A j \in 1 .. Len(pars) : pars[j] = pars[i] => j <= i})]_vars

\* a = 7; ((x, y) => x + 1)(4, a) has returned 5
C2_Witness ==
    /\ status = "idle"
    /\ line = CallText(<<<<"x">>, <<"y">>>>, <<"x", " ", "+", " ", "1">>,
                       <<<<"4">>, <<"a">>>>)
    /\ returned.ok
    /\ returned.val.k = "Int"
    /\ returned.val.n = 5

\* C8: a call of a function whose parameter count differs from the count
\* of the arguments ends the exec call with MismatchedArgumentCount at the
\* CallFunction instruction: no Scope has a new binding, no body frame was
\* started and no further instruction is counted.
C8_MismatchFailsBeforeBinding ==
    [][(/\ CallSetUp
        /\ Callee.k = "Function"
        /\ program[Callee.n + 1].code = "PushFunction"
        /\ Len(program[Callee.n + 1].pars) # Right.n) =>
          /\ status' = "idle"
          /\ returned' = [ok |-> FALSE, val |-> NoneV,
                          err |-> Error(CallIns.offset, CallIns.width,
                                        "MismatchedArgumentCount")]
          /\ frames' = <<>>
          /\ instruction_count' = instruction_count
          /\ scopes' = SubSeq(scopes, 1, 2)
          /\ call_function_enter(M, Caller.scope, Top.scope, CallIns, program).m.scopes
                = scopes]_vars

\* a = 7; ((x) => x)(4, a) has failed
C8_Witness ==
    /\ status = "idle"
    /\ line = CallText(<<<<"x">>>>, <<"x">>, <<<<"4">>, <<"a">>>>)
    /\ ~returned.ok
    /\ returned.err.type = "MismatchedArgumentCount"
    /\ DOMAIN RootBindings = {<<"a">>}

\* ------------------------------------------------------------------------
\* Properties of the Stack (StackSpec)
\* ------------------------------------------------------------------------

\* C9: the Stack checks the range before it changes anything. A push when
\* stacki + 1 would reach STACK_SIZE and a pop when stacki is 0 each fail with
\* StackOverflow{stack_size: 512, index: the rejected index}, and stacki and
\* every slot stay as they were.
C9_RangeCheckedBeforeMutation ==
    [][/\ (sres'.op = "push" /\ stack.stacki + 1 >= STACK_SIZE) =>
            /\ ~sres'.ok
            /\ Undescribed(sres'.err) = StackOverflow(HarnessIns.offset, HarnessIns.width,
                                                      stack.stacki + 1)
            /\ sres'.err.stack_size = 512
            /\ stack' = stack
       /\ (sres'.op = "pop" /\ sres'.pops = sres.pops + 1 /\ stack.stacki = 0) =>
            /\ ~sres'.ok
            /\ Undescribed(sres'.err) = StackOverflow(HarnessIns.offset, HarnessIns.width, -1)
            /\ sres'.err.stack_size = 512
            /\ stack' = stack]_vars

\* C9, the case reached: a push was rejected on a Stack whose last slot is
\* in use
C9_Witness ==
    /\ sres.op = "push"
    /\ ~sres.ok
    /\ sres.err.type = "StackOverflow"
    /\ stack.stacki = STACK_SIZE - 1
    /\ stack.stack[STACK_SIZE - 1] # NoneV

\* C10: the Stack holds up to 512 live values: a push succeeds exactly when
\* fewer than 512 values are live (stacki counts the live values).
C10_Holds512Values ==
    [][sres'.op = "push" => (sres'.ok <=> stack.stacki < 512)]_vars

\* C11: the Stack has the slots 0 .. 511 and stacki lies among them; every
\* slot from 1 to stacki holds a value, so none is live exactly when stacki
\* is 0; a successful push raises stacki by one, a successful pop lowers it
\* by one and a failing operation leaves it; no pop fails with
\* StackElementUninitialized.
C11_StackShape ==
    /\ [](/\ DOMAIN stack.stack = 0 .. 511
          /\ stack.stacki \in 0 .. 511
          /\ \A i \in 1 .. stack.stacki : stack.stack[i] # NoneV
          /\ (stack.stacki = 0) <=> ({i \in 1 .. stack.stacki : stack.stack[i] # NoneV} = {})
          /\ sres.err.type # "StackElementUninitialized")
    /\ [][stack'.stacki = stack.stacki + (IF ~sres'.ok THEN 0
                                          ELSE IF sres'.op = "push" THEN 1 ELSE -1)]_vars

\* pushes and pops have emptied the Stack again; slot 1 keeps what it held
C11_Witness ==
    /\ sres.op = "pop"
    /\ sres.ok
    /\ sres.pops >= 2
    /\ stack.stacki = 0
    /\ stack.stack[1] # NoneV

\* ------------------------------------------------------------------------
\* Properties of shell sessions (Spec)
\* ------------------------------------------------------------------------

ArithmeticCodes == {"Add", "Subtract", "Multiply", "Divide"}

\* The instruction in progress is a top-level Assign to name
TopLevelAssign(name) ==
    /\ Len(frames) = 1
    /\ Executing({"Assign"})
    /\ stack.stacki >= 2
    /\ Left.k = "Variable"
    /\ Left.s = name

\* C3: a name bound by a top-level assignment keeps its value through every
\* step, whether of the same exec call, of a later one, of a sweep or of a
\* function call, until a top-level Assign to that name executes; such an
\* Assign binds the name to the resolved right-hand side, and a top-level
\* read that ends an exec call returns the bound value.
C3_TopLevelBindingPersists ==
    [][/\ Len(scopes) >= 2 =>
            \A name \in DOMAIN RootBindings :
                \/ /\ Len(scopes') >= 2
                   /\ name \in DOMAIN scopes'[2].variables
                   /\ scopes'[2].variables[name] = RootBindings[name]
                \/ TopLevelAssign(name)
       /\ \A name \in {IF Len(frames) = 1 /\ Executing({"Assign"}) /\ stack.stacki >= 2
                       THEN Left.s ELSE <<>>} :
            (TopLevelAssign(name) /\ status' = "exec") =>
                /\ name \in DOMAIN scopes'[2].variables
                /\ scopes'[2].variables[name] = get_variable(M, 2, Right)
       /\ (/\ status = "exec" /\ Len(frames) = 1 /\ AtBreak
           /\ stack.stacki >= 1
           /\ Right.k = "Variable"
           /\ Right.s \in DOMAIN RootBindings) =>
                /\ returned'.ok
                /\ returned'.val = RootBindings[Right.s]]_vars

\* a = 5, then in a later exec call, after a sweep, the read of a
C3_Witness ==
    /\ runs = 2
    /\ status = "idle"
    /\ line = LongLine
    /\ instruction_count < 5
    /\ returned.ok
    /\ returned.val.k = "Int"
    /\ returned.val.n = 5
    /\ \A i \in DOMAIN pool : pool[i].k # "Int" \/ pool[i].n # 1

\* C4: while a call is in progress no step changes a Scope other than the
\* call's own: the caller's Scope and its ancestors keep every binding, gain
\* none (so no parameter is bound in them), and are the same when the call
\* has returned.
C4_CallLeavesCallerBindings ==
    [][(status = "exec" /\ Len(frames) >= 2) =>
          /\ Len(scopes') >= 2
          /\ \A k \in 1 .. Len(frames) - 1 :
                /\ frames[k].scope <= Len(scopes')
                /\ scopes'[frames[k].scope] = scopes[frames[k].scope]
          /\ scopes'[1] = scopes[1]]_vars

\* a = 1; ((x) => { a = 2; x })(a = 3); a has returned 1
C4_Witness ==
    /\ status = "idle"
    /\ line = ShadowLine
    /\ runs = 1
    /\ returned.ok
    /\ returned.val.k = "Int"
    /\ returned.val.n = 1
    /\ instruction_count = 17
    /\ DOMAIN RootBindings = {<<"a">>}

\* Whether the exact result of an Int operation is no i32
IntOverflows(code, a, b) ==
    IF code = "Divide" THEN a = MinI32 /\ b = -1 ELSE Overflows(code, a, b)

\* C5: an arithmetic instruction whose resolved operands are Int or Float
\* goes on to the next instruction with the stack one value lower and on top
\* of it a value created by this instruction and held by the Pool: for two
\* Int the Int that is the exact result (the quotient truncated toward
\* zero), else a Float.
C5_ArithmeticPushesOneValue ==
    [][(Executing(ArithmeticCodes) /\ stack.stacki >= 2) =>
          Let(get_variable(M, Top.scope, Left), LAMBDA first :
          Let(get_variable(M, Top.scope, Right), LAMBDA second :
              (first.k \in {"Int", "Float"} /\ second.k \in {"Int", "Float"}) =>
                  /\ status' = "exec"
                  /\ stack'.stacki = stack.stacki - 1
                  /\ stack'.stack[stack'.stacki].id = next_id
                  /\ \E i \in DOMAIN pool' : pool'[i] = stack'.stack[stack'.stacki]
                  /\ IF first.k = "Int" /\ second.k = "Int"
                     THEN /\ stack'.stack[stack'.stacki].k = "Int"
                          /\ (Cur.code = "Divide") => second.n # 0
                          /\ ~IntOverflows(Cur.code, first.n, second.n)
                          /\ stack'.stack[stack'.stacki].n =
                                CASE Cur.code = "Add" -> first.n + second.n
                                  [] Cur.code = "Subtract" -> first.n - second.n
                                  [] Cur.code = "Multiply" -> first.n * second.n
                                  [] Cur.code = "Divide" -> TruncDiv(first.n, second.n)
                     ELSE stack'.stack[stack'.stacki].k = "Float"))]_vars

\* C6: an arithmetic instruction with a resolved operand that is a String, a
\* Null or a Function ends the exec call with OperationNotSupported at the
\* instruction; both operands are popped, nothing is pushed, and the Pool
\* holds the values it held before.
C6_UnsupportedOperandsFail ==
    [][(Executing(ArithmeticCodes) /\ stack.stacki >= 2) =>
          Let(get_variable(M, Top.scope, Left), LAMBDA first :
          Let(get_variable(M, Top.scope, Right), LAMBDA second :
              (\/ first.k \in {"String", "Null", "Function"}
               \/ second.k \in {"String", "Null", "Function"}) =>
                  /\ status' = "idle"
                  /\ ~returned'.ok
                  /\ Undescribed(returned'.err) = Error(Cur.offset, Cur.width,
                                                       "OperationNotSupported")
                  /\ stack'.stacki = stack.stacki - 2
                  /\ stack'.stack = stack.stack
                  /\ pool' = pool
                  /\ next_id' = next_id))]_vars

\* f - 1 with f bound to a function has failed
C6_Witness ==
    /\ status = "idle"
    /\ line = <<"f", " ", "-", " ", "1">>
    /\ ~returned.ok
    /\ returned.err.type = "OperationNotSupported"
    /\ <<"f">> \in DOMAIN RootBindings
    /\ RootBindings[<<"f">>].k = "Function"

\* C7: an Assign with two values on the stack pops both. If the lower one
\* is a Variable placeholder, its name is bound in the Scope of the running
\* instance to the resolved upper one, which is no placeholder; no other
\* binding changes; the placeholder is pushed back and the stack is one
\* value lower. Otherwise the exec call fails with AssignToNonVariable and
\* every Scope is as it was.
C7_AssignBindsOrFails ==
    [][(Executing({"Assign"}) /\ stack.stacki >= 2) =>
          IF Left.k = "Variable"
          THEN Let(get_variable(M, Top.scope, Right), LAMBDA second :
                   /\ status' = "exec"
                   /\ second.k # "Variable"
                   /\ Len(scopes') = Len(scopes)
                   /\ DOMAIN scopes'[Top.scope].variables =
                         DOMAIN scopes[Top.scope].variables \cup {Left.s}
                   /\ scopes'[Top.scope].variables[Left.s] = second
                   /\ \A x \in DOMAIN scopes[Top.scope].variables \ {Left.s} :
                         scopes'[Top.scope].variables[x] = scopes[Top.scope].variables[x]
                   /\ scopes'[Top.scope].parent = scopes[Top.scope].parent
                   /\ \A s \in DOMAIN scopes \ {Top.scope} : scopes'[s] = scopes[s]
                   /\ stack'.stacki = stack.stacki - 1
                   /\ stack'.stack[stack'.stacki] = Left)
          ELSE /\ status' = "idle"
               /\ ~returned'.ok
               /\ Undescribed(returned'.err) = Error(Cur.offset, Cur.width,
                                                    "AssignToNonVariable")
               /\ assign(M, Top.scope, Cur).m.scopes = scopes
               /\ scopes' = SubSeq(scopes, 1, 2)]_vars

\* a = 5 has bound a, and then 1 = 2 has failed
C7_Witness ==
    /\ status = "idle"
    /\ runs = 2
    /\ line = <<"1", " ", "=", " ", "2">>
    /\ ~returned.ok
    /\ returned.err.type = "AssignToNonVariable"
    /\ <<"a">> \in DOMAIN RootBindings
    /\ RootBindings[<<"a">>].k = "Int"
    /\ RootBindings[<<"a">>].n = 5

\* The allocations of the values in a pool
PoolIds(p) == {p[i].id : i \in DOMAIN p}

\* The allocations an occupied stack slot refers to
SlotIds == {stack.stack[i].id : i \in 1 .. stack.stacki}

\* The allocations a binding of a live Scope refers to
BoundIds ==
    UNION {{scopes[s].variables[x].id : x \in DOMAIN scopes[s].variables} :
             s \in DOMAIN scopes}

\* The allocations an operand of a call in progress refers to
HeldIds == UNION {{frames[k].held[j].id : j \in DOMAIN frames[k].held} : k \in DOMAIN frames}

\* The step sweeps the Pool: the shared counter passed GC_INSTRUCTION_COUNT
\* at the end of an instruction, or the shell ran $gc between two lines
Sweeps ==
    \/ instruction_count = GC_INSTRUCTION_COUNT /\ instruction_count' = 0
    \/ status = "idle" /\ status' = "idle" /\ runs' = runs

\* C12: a sweep, in a nested call as anywhere else, keeps every pooled value
\* that an occupied stack slot, a binding of a live Scope or an operand of a
\* call in progress refers to, and leaves the Pool no larger than it was
\* (counting the values the sweeping instruction itself created).
C12_SweepKeepsReferenced ==
    [][Sweeps =>
        /\ \A id \in SlotIds' \cup BoundIds' \cup HeldIds' :
              id \in PoolIds(pool) \cup (next_id .. next_id' - 1) => id \in PoolIds(pool')
        /\ Len(pool') <= Len(pool) + (next_id' - next_id)]_vars

\* A sweep has just run inside the body of a call, freed values, and kept
\* the caller's operands and the parameter binding
C12_Witness ==
    /\ status = "exec" /\ instruction_count = 0
    /\ Len(frames) = 2 /\ Top.kind = "body"
    /\ Len(pool) < next_id - 1
    /\ HeldIds # {} /\ HeldIds \subseteq PoolIds(pool)
    /\ BoundIds # {} /\ BoundIds \subseteq PoolIds(pool)
    /\ SlotIds # {} /\ SlotIds \subseteq PoolIds(pool)

\* C13: right after a sweep the Pool holds only values that an occupied
\* stack slot or a binding of a live Scope refers to; a value that was
\* popped and is bound to no variable is gone.
C13_SweepLeavesOnlyReferenced ==
    [][Sweeps => PoolIds(pool') \subseteq SlotIds' \cup BoundIds']_vars

\* The kind of value a literal push instruction stands for
LiteralKind(ins) ==
    CASE ins.code = "PushNum" -> "Int"
      [] ins.code = "PushFloat" -> "Float"
      [] ins.code = "PushString" -> "String"
      [] ins.code = "PushNull" -> "Null"

\* C14: a literal push instruction (PushNum, PushFloat, PushString,
\* PushNull) creates one value of its kind in the Pool and pushes it, without
\* an error; the line `null` returns Null.
C14_LiteralPushCreatesAndPushes ==
    /\ [][Executing({"PushNum", "PushFloat", "PushString", "PushNull"}) =>
            /\ status' = "exec"
            /\ next_id' = next_id + 1
            /\ stack'.stacki = stack.stacki + 1
            /\ stack'.stack[stack'.stacki].id = next_id
            /\ stack'.stack[stack'.stacki].k = LiteralKind(Cur)
            /\ stack'.stack[stack'.stacki] \in {pool'[i] : i \in DOMAIN pool'}]_vars
    /\ [](line = <<"n", "u", "l", "l">> /\ status = "idle" =>
            returned.ok /\ returned.val.k = "Null")

\* The step is the successful end of VMInstance::exec
Finishes == status = "exec" /\ status' = "idle" /\ returned'.ok

\* C15: when the program ran without an error, exec pops one value and
\* returns it (as its debug rendering) after resolving it through the
\* scope of the root instance when it is a Variable placeholder, unbound
\* names giving Null; with an empty Stack exec returns Null and the Stack
\* stays empty. returned.val is the value that is rendered.
C15_ExecReturnsTopResolved ==
    [][Finishes =>
        IF stack.stacki = 0
        THEN returned'.val = NULL /\ stack' = stack
        ELSE /\ stack' = [stack EXCEPT !.stacki = stack.stacki - 1]
             /\ returned'.val =
                   IF Right.k # "Variable" THEN Right
                   ELSE IF Right.s \in DOMAIN RootBindings THEN RootBindings[Right.s]
                   ELSE IF Right.s \in DOMAIN scopes[1].variables
                   THEN scopes[1].variables[Right.s]
                   ELSE NULL]_vars

\* The second line, `a`, returned the Int that the first bound to a
C15_Witness ==
    /\ status = "idle" /\ runs = 2 /\ line = <<"a">>
    /\ returned.ok /\ returned.val.k = "Int" /\ returned.val.n = 5
    /\ stack.stacki = 0 /\ stack.stack[1].k = "Variable"

\* The step ends the exec call other than by its successful end: an
\* instruction failed
Fails == status = "exec" /\ status' # "exec" /\ ~Finishes

\* The instruction in progress: the one the innermost loop is at or, when
\* the innermost do_exec has ended, the CallFunction that started it
InProgress == IF AtBreak THEN program[Caller.index + 1] ELSE Cur

\* C16: when an instruction fails, the exec call ends there: no do_exec
\* invocation is left to run a later instruction, exec returns the error of
\* that instruction, the counter of executed instructions does not move,
\* the Stack keeps what the instruction left (nothing popped comes back,
\* nothing pushed is removed), the Pool loses nothing and the two root
\* scopes keep their bindings.
C16_FailureStopsAndKeepsState ==
    [][Fails =>
        /\ status' = "idle" /\ frames' = <<>>
        /\ ~returned'.ok
        /\ returned'.err.type # ""
        /\ returned'.err.offset = InProgress.offset
        /\ returned'.err.width = InProgress.width
        /\ instruction_count' = instruction_count
        /\ program' = program
        /\ stack'.stacki <= stack.stacki
        /\ \A i \in 1 .. stack'.stacki : stack'.stack[i] = stack.stack[i]
        /\ SubSeq(pool', 1, Len(pool)) = pool
        /\ scopes' = SubSeq(scopes, 1, 2)]_vars

\* C17: an instruction that fails makes exec return an Error value; the
\* run never ends in an abort outside the error type. A Divide whose
\* operands resolve to two Ints with divisor 0 is such a failure.
C17_FailuresAreErrors ==
    /\ [](status # "panic")
    /\ [][/\ Executing({"Divide"})
           /\ stack.stacki >= 2
           /\ get_variable(M, Top.scope, Left).k = "Int"
           /\ get_variable(M, Top.scope, Right).k = "Int"
           /\ get_variable(M, Top.scope, Right).n = 0
           => status' = "idle" /\ ~returned'.ok /\ returned'.err.type # ""]_vars

\* ------------------------------------------------------------------------
\* Properties of recursion (RecSpec)
\* ------------------------------------------------------------------------

\* C18: an exec call returns in the end, with a result or an error, also
\* when a function calls itself: while a do_exec invocation stays the
\* innermost one its index only grows, and an exec call that has started
\* goes on until it returns; nothing else ends it.
C18_ExecReturns ==
    /\ [][status = "exec" /\ status' = "exec" /\ Len(frames') = Len(frames) =>
            Top'.index > Top.index \/ Top'.kind # Top.kind]_vars
    /\ [][status = "exec" => status' \in {"exec", "idle"}]_vars

\* The values held by the slots of the Stack and by the bindings of the
\* live Scopes
HeldValues ==
    {stack.stack[i] : i \in DOMAIN stack.stack}
    \cup UNION {{scopes[s].variables[x] : x \in DOMAIN scopes[s].variables} :
                s \in DOMAIN scopes}

\* Every Function value held has the position of a PushFunction
FunctionsValid ==
    \A v \in HeldValues : v.k = "Function" =>
        /\ v.n < Len(program)
        /\ program[v.n + 1].code = "PushFunction"

\* C29: from one exec call to the next the Program only grows at its end,
\* every Function value in a stack slot or a scope binding has the position
\* of a PushFunction of the Program, and no call fails with
\* InvalidFunctionValue.
C29_FunctionPositionsStayValid ==
    [][/\ FunctionsValid
       /\ FunctionsValid'
       /\ SubSeq(program', 1, Len(program)) = program
       /\ returned'.err.type # "InvalidFunctionValue"]_vars

\* The function the first line bound to h was called by the second line,
\* which has returned without error
C29_Witness ==
    /\ status = "idle"
    /\ runs = 2
    /\ returned.ok
    /\ line = <<"h", "(", "2", ")", ";", " ", "f">>
    /\ program[2].code = "PushFunction"
    /\ <<"h">> \in DOMAIN RootBindings
    /\ RootBindings[<<"h">>].k = "Function"
    /\ RootBindings[<<"h">>].n = 1

\* ------------------------------------------------------------------------
\* Properties of Scopes (ScopeSpec)
\* ------------------------------------------------------------------------

RECURSIVE OnChain(_)
\* The Scopes on the parent chain of Scope s, s itself included
OnChain(s) == IF s = 0 THEN {} ELSE {s} \cup OnChain(scopes[s].parent)

\* The Scopes on the chain of s that bind name. A child is made after its
\* parent, so the nearest of them is the one made last.
Binders(s, name) == {t \in OnChain(s) : name \in DOMAIN scopes[t].variables}

\* C19: get_variable returns the binding of the nearest Scope on the parent
\* chain, the Scope itself first, that binds the name, and None when none
\* on the chain does; the VM resolves a Variable placeholder to that binding
\* and to Null when there is none, and any other value to itself.
C19_NearestBindingOrNone ==
    /\ hres.op = "get" =>
          IF Binders(hres.s, hres.name) = {} THEN ~hres.some
          ELSE /\ hres.some
               /\ hres.val = scopes[Max(Binders(hres.s, hres.name))].variables[hres.name]
    /\ hres.op = "resolve" =>
          IF hres.of.k # "Variable" THEN hres.val = hres.of
          ELSE IF Binders(hres.s, hres.of.s) = {} THEN hres.val = NULL
          ELSE hres.val = scopes[Max(Binders(hres.s, hres.of.s))].variables[hres.of.s]

\* Scope 3, a child of Scope 2, was asked for a name that 1, 2 and 3 bind
\* and answered with its own binding
C19_Witness ==
    /\ hres.op = "get" /\ hres.s = 3 /\ hres.some /\ hres.val = VInt(3)
    /\ scopes[3].parent = 2
    /\ Binders(3, hres.name) = {1, 2, 3}

\* ------------------------------------------------------------------------
\* Properties of the compiler (CompileSpec)
\* ------------------------------------------------------------------------

RECURSIVE Unsupported(_), UnsupportedIn(_)
\* The Binary nodes of an expression whose operator is none of + - * / =
Unsupported(expr) ==
    (IF expr.expression_type = "Binary"
        /\ expr.operator \notin {"Plus", "Minus", "Asterix", "FSlash", "Equals"}
     THEN {[operator |-> expr.operator, offset |-> expr.op_offset, width |-> expr.op_width]}
     ELSE {})
    \cup UNION {Unsupported(expr.kids[i]) : i \in DOMAIN expr.kids}
    \cup UnsupportedIn(expr.body)

\* The same of the statements of an AST
UnsupportedIn(ast) == UNION {Unsupported(ast[i].expression) : i \in DOMAIN ast}

\* C20: compile fails exactly when a Binary node somewhere in the AST (at
\* top level, in a function body, a call argument, a list item, an operand)
\* has an operator other than + - * / =. It then returns no Program but
\* CompilerError::NotImplemented with the offset and width of such an
\* operator and a description that names it; every other AST compiles.
C20_UnsupportedOperatorFails ==
    hres.op = "compile" =>
        IF UnsupportedIn(hres.ast) = {}
        THEN hres.result.ok /\ hres.result.err = NoError
        ELSE /\ ~hres.result.ok
             /\ hres.result.list = <<>>
             /\ hres.result.err.type = "CompilerNotImplemented"
             /\ \E b \in UnsupportedIn(hres.ast) :
                   /\ hres.result.err.offset = b.offset
                   /\ hres.result.err.width = b.width
                   /\ hres.result.err.description =
                         Description("unimplemented operator", b.operator, <<>>)

\* compile failed on a function whose body holds a ** between supported
\* operands
C20_Witness ==
    /\ hres.op = "compile"
    /\ Len(hres.ast) = 1
    /\ hres.ast[1].expression.expression_type = "Function"
    /\ UnsupportedIn(hres.ast) = {[operator |-> "DoubleAsterix", offset |-> 12, width |-> 2]}
    /\ ~hres.result.ok
    /\ hres.result.err.offset = 12

\* ------------------------------------------------------------------------
\* Properties of list literals (ListSpec)
\* ------------------------------------------------------------------------

\* The codes the match of do_exec has no arm for
Unhandled == {"Null", "PushNull", "PushList"}

\* The codes that push the one value they create
SimplePush == {"PushNum", "PushFloat", "PushString", "PushVar"}

\* The value a simple push instruction leaves on the Stack
Pushed(ins) == IF ins.code = "PushVar" THEN VVariable(ins.name) ELSE LiteralValue(ins)

\* The n instructions before the innermost index are simple pushes
AfterSimplePushes(n) ==
    /\ Top.index >= n
    /\ \A i \in 1 .. n : program[Top.index - n + i].code \in SimplePush

\* C21: an instruction without a handler (PushList, PushNull, Null) ends
\* exec with NotImplemented at that instruction's offset and width, and the
\* Stack is left as the instructions before it made it: a list literal's
\* elements are still in the top slots.
C21_UnhandledFailsKeepingStack ==
    [][Executing(Unhandled) =>
        /\ status' = "idle"
        /\ ~returned'.ok
        /\ Undescribed(returned'.err) = Error(Cur.offset, Cur.width, "NotImplemented")
        /\ stack' = stack
        /\ Cur.code = "PushList" =>
            /\ stack'.stacki >= Top.base + Cur.n
            /\ AfterSimplePushes(Cur.n) =>
                \A i \in 1 .. Cur.n :
                    [stack'.stack[stack'.stacki - Cur.n + i] EXCEPT !.id = 0]
                        = Pushed(program[Top.index - Cur.n + i])]_vars

\* The line [1, 2] ended with NotImplemented and 1 and 2 in the top slots
C21_Witness ==
    /\ status = "idle"
    /\ line = <<"[", "1", ",", " ", "2", "]">>
    /\ ~returned.ok
    /\ returned.err.type = "NotImplemented"
    /\ stack.stacki >= 2
    /\ Left.n = 1
    /\ Right.n = 2

\* ------------------------------------------------------------------------
\* Properties of the lexer's stripping passes (LexSpec)
\* ------------------------------------------------------------------------

\* A left-to-right reading of a text, character c at index p (from 0):
\* outside strings and comments a quote opens a string and the second of
\* two adjacent slashes opens a comment; in a string a backslash escapes the
\* next character and an unescaped quote closes the string; a comment ends
\* at the end of the line. strings and comments collect [offset, content],
\* rest the indexes of the characters outside both.
ReadChar(st, c, p) ==
    CASE st.mode = "comment" ->
            IF c = "\n"
            THEN [st EXCEPT !.mode = "rest", !.slash = FALSE,
                            !.comments = Append(@, [offset |-> st.start, content |-> st.buf])]
            ELSE [st EXCEPT !.buf = Append(@, c)]
      [] st.mode = "string" ->
            IF st.esc THEN [st EXCEPT !.esc = FALSE, !.buf = Append(@, c)]
            ELSE IF c = "\\" THEN [st EXCEPT !.esc = TRUE]
            ELSE IF c = "\""
            THEN [st EXCEPT !.mode = "rest", !.slash = FALSE,
                            !.strings = Append(@, [offset |-> st.start, content |-> st.buf])]
            ELSE [st EXCEPT !.buf = Append(@, c)]
      [] st.mode = "rest" ->
            IF c = "\""
            THEN [st EXCEPT !.mode = "string", !.open = p, !.start = p + 1,
                            !.buf = <<>>, !.esc = FALSE, !.slash = FALSE]
            ELSE IF c = "/" /\ st.slash
            THEN [st EXCEPT !.mode = "comment", !.start = p + 1, !.buf = <<>>,
                            !.rest = @ \ {p - 1}, !.slash = FALSE]
            ELSE [st EXCEPT !.rest = @ \cup {p}, !.slash = (c = "/")]

RECURSIVE ReadFrom(_, _, _)
ReadFrom(text, i, st) ==
    IF i > Len(text) THEN st ELSE ReadFrom(text, i + 1, ReadChar(st, text[i], i - 1))

\* The reading of a whole text; a comment the text ends in is a comment too
Reading(text) ==
    Let(ReadFrom(text, 1, [mode |-> "rest", esc |-> FALSE, slash |-> FALSE, open |-> 0,
                           start |-> 0, buf |-> <<>>, strings |-> <<>>,
                           comments |-> <<>>, rest |-> {}]), LAMBDA st :
        IF st.mode = "comment"
        THEN [st EXCEPT !.comments = Append(@, [offset |-> st.start, content |-> st.buf])]
        ELSE st)

\* The blocks of one type, as [offset, content], empty ones left out
BlocksOf(blocks, type) ==
    Let(SelectSeq(blocks, LAMBDA b : b.block_type = type /\ b.content # <<>>), LAMBDA bs :
        [k \in DOMAIN bs |-> [offset |-> bs[k].offset, content |-> bs[k].content]])

NonEmpty(segments) == SelectSeq(segments, LAMBDA s : s.content # <<>>)

\* C22: strip_strings fails exactly when the text ends inside a string
\* literal, and then with UnexpectedEndOfString of width 1 at the index of
\* the quote that opened it.
C22_UnterminatedStringFails ==
    hres.op = "lex" =>
        Let(Reading(hres.text), LAMBDA r :
            /\ ~hres.w_strings.ok <=> r.mode = "string"
            /\ ~hres.w_strings.ok =>
                   hres.w_strings.err = Error(r.open, 1, "UnexpectedEndOfString"))

\* The text a"\"  (a string opened at index 1 whose only quote after it is
\* escaped) was refused at offset 1
C22_Witness ==
    /\ hres.op = "lex"
    /\ hres.text = <<"a", "\"", "\\", "\"">>
    /\ ~hres.w_strings.ok
    /\ hres.w_strings.err.offset = 1

\* C23: where the text does not end inside a string, both passes succeed;
\* the String blocks are the string literals of the reading (a // inside
\* stays in the block), the Comment blocks its comments (a quote inside
\* stays in the block), the Rest blocks hold exactly the characters outside
\* both, and the blocks follow one another in source order.
C23_StringsAndCommentsKeptApart ==
    hres.op = "lex" =>
        Let(Reading(hres.text), LAMBDA r :
            r.mode # "string" =>
                /\ hres.w_strings.ok
                /\ hres.w_comments.ok
                /\ Let(hres.w_comments.list, LAMBDA blocks :
                    /\ \A k \in DOMAIN blocks :
                           blocks[k].block_type \in {"Rest", "Literal", "Comment"}
                    /\ BlocksOf(blocks, "Literal") = NonEmpty(r.strings)
                    /\ Len(SelectSeq(blocks, LAMBDA b : b.block_type = "Literal"))
                           = Len(r.strings)
                    /\ BlocksOf(blocks, "Comment") = NonEmpty(r.comments)
                    /\ \A k \in DOMAIN blocks : blocks[k].block_type = "Rest" =>
                           blocks[k].content = SubSeq(hres.text, blocks[k].offset + 1,
                                                    blocks[k].offset + blocks[k].width)
                    /\ UNION {blocks[k].offset .. blocks[k].offset + blocks[k].width - 1 :
                                k \in {j \in DOMAIN blocks : blocks[j].block_type = "Rest"}}
                           = r.rest
                    /\ \A k \in 1 .. Len(blocks) - 1 :
                           blocks[k].offset + blocks[k].width <= blocks[k + 1].offset))

\* The text "//"//" was cut into the String block // and the Comment block "
C23_Witness ==
    /\ hres.op = "lex"
    /\ hres.text = <<"\"", "/", "/", "\"", "/", "/", "\"">>
    /\ hres.w_comments.ok
    /\ BlocksOf(hres.w_comments.list, "Literal") = <<[offset |-> 1, content |-> <<"/", "/">>]>>
    /\ BlocksOf(hres.w_comments.list, "Comment") = <<[offset |-> 6, content |-> <<"\"">>]>>

\* ------------------------------------------------------------------------
\* Properties of compiled functions and calls (NestSpec)
\* ------------------------------------------------------------------------

RECURSIVE ClosingReturn(_, _, _)
\* The index (from 1) of the Return that closes the block open at index i:
\* PushFunction and CallFunction each open a block that a Return closes;
\* depth counts the blocks opened since. 0: there is none.
ClosingReturn(prog, i, depth) ==
    IF i > Len(prog) THEN 0
    ELSE IF prog[i].code = "Return"
    THEN IF depth = 0 THEN i ELSE ClosingReturn(prog, i + 1, depth - 1)
    ELSE IF prog[i].code \in {"PushFunction", "CallFunction"}
    THEN ClosingReturn(prog, i + 1, depth + 1)
    ELSE ClosingReturn(prog, i + 1, depth)

\* Where straight-line execution goes from the instruction at index i
Following(prog, i) ==
    i + 1 + (IF prog[i].code = "PushFunction" THEN prog[i].body_len
             ELSE IF prog[i].code = "CallFunction" THEN prog[i].args_len ELSE 0)

RECURSIVE StraightLine(_, _, _)
\* The indexes straight-line execution visits from index i up to, not
\* including, index to
StraightLine(prog, i, to) ==
    IF i >= to \/ i > Len(prog) THEN {}
    ELSE {i} \cup StraightLine(prog, Following(prog, i), to)

\* What an instruction that is not skipped adds to the depth of the Stack:
\* a push one value, a binary operation and Pop one less; a call replaces
\* the callee by the result
StackEffect(ins) ==
    CASE ins.code \in {"PushNum", "PushFloat", "PushString", "PushVar", "PushNull",
                       "PushFunction"} -> 1
      [] ins.code \in {"Add", "Subtract", "Multiply", "Divide", "Assign", "Pop"} -> -1
      [] ins.code = "PushList" -> 1 - ins.n
      [] OTHER -> 0

RECURSIVE SumEffect(_, _)
SumEffect(prog, indexes) ==
    IF indexes = {} THEN 0
    ELSE Let(CHOOSE i \in indexes : TRUE, LAMBDA i :
             StackEffect(prog[i]) + SumEffect(prog, indexes \ {i}))

\* C24: in a compiled Program the instruction body_len behind a
\* PushFunction is the Return that closes its body; the instruction
\* args_len behind a CallFunction is the Return that closes its argument
\* block, and the one before it is PushNum(number of arguments), the number
\* of values the argument expressions leave. Straight-line execution from
\* the start of the Program, of a body or of an argument block meets no
\* Return before the end of that block.
C24_LengthsReachClosingReturn ==
    (hres.op = "compile" /\ hres.result.ok) =>
        Let(hres.result.list, LAMBDA prog :
            /\ \A p \in DOMAIN prog : prog[p].code = "PushFunction" =>
                /\ p + prog[p].body_len \in DOMAIN prog
                /\ prog[p + prog[p].body_len].code = "Return"
                /\ p + prog[p].body_len = ClosingReturn(prog, p + 1, 0)
                /\ \A i \in StraightLine(prog, p + 1, p + prog[p].body_len) :
                       /\ prog[i].code # "Return"
                       /\ Following(prog, i) <= p + prog[p].body_len
            /\ \A c \in DOMAIN prog : prog[c].code = "CallFunction" =>
                /\ c + prog[c].args_len \in DOMAIN prog
                /\ prog[c + prog[c].args_len].code = "Return"
                /\ c + prog[c].args_len = ClosingReturn(prog, c + 1, 0)
                /\ prog[c + prog[c].args_len - 1].code = "PushNum"
                /\ prog[c + prog[c].args_len - 1].n
                       = SumEffect(prog, StraightLine(prog, c + 1, c + prog[c].args_len - 1))
                /\ \A i \in StraightLine(prog, c + 1, c + prog[c].args_len) :
                       /\ prog[i].code # "Return"
                       /\ Following(prog, i) <= c + prog[c].args_len
            /\ \A i \in StraightLine(prog, 1, Len(prog) + 1) :
                   /\ prog[i].code # "Return"
                   /\ Following(prog, i) <= Len(prog) + 1)

\* A Program with a function literal inside the argument block of a call
\* that is itself inside a function body
C24_Witness ==
    /\ hres.op = "compile"
    /\ hres.result.ok
    /\ Let(hres.result.list, LAMBDA prog :
           \E p \in DOMAIN prog, c \in DOMAIN prog, q \in DOMAIN prog :
               /\ prog[p].code = "PushFunction"
               /\ prog[c].code = "CallFunction"
               /\ prog[q].code = "PushFunction"
               /\ p < c /\ c < q
               /\ q + prog[q].body_len < c + prog[c].args_len
               /\ c + prog[c].args_len < p + prog[p].body_len
               /\ prog[c + prog[c].args_len - 1].n = 2)

\* ------------------------------------------------------------------------
\* Properties of the loop of do_exec (CallSpec)
\* ------------------------------------------------------------------------

\* The indexes of the do_exec invocations below the innermost one of fr
IndexesBelow(fr, n) == [k \in 1 .. n |-> fr[k].index]

\* C25: a step of do_exec that does not fail advances the index of the
\* innermost invocation by 1, by 1 + body_len for PushFunction; CallFunction
\* starts an invocation at the next index and, once the body has returned,
\* advances the caller's index by 1 + args_len; at Return or at the end of
\* the Program the invocation ends with its index where it is; no step
\* moves the index of an invocation that waits for a call.
C25_IndexAdvance ==
    [][/\ (status = "exec" /\ status' = "exec") =>
            IF AtBreak
            THEN IF Top.kind = "args"
                 THEN /\ Len(frames') = Len(frames)
                      /\ frames'[Len(frames)].kind = "body"
                      /\ IndexesBelow(frames', Len(frames) - 1)
                            = IndexesBelow(frames, Len(frames) - 1)
                 ELSE /\ Len(frames') = Len(frames) - 1
                      /\ frames'[Len(frames')].index
                            = Caller.index + 1 + program[Caller.index + 1].args_len
                      /\ IndexesBelow(frames', Len(frames) - 2)
                            = IndexesBelow(frames, Len(frames) - 2)
            ELSE IF Cur.code = "CallFunction"
            THEN /\ Len(frames') = Len(frames) + 1
                 /\ frames'[Len(frames')].index = Top.index + 1
                 /\ IndexesBelow(frames', Len(frames)) = IndexesBelow(frames, Len(frames))
            ELSE /\ Len(frames') = Len(frames)
                 /\ frames'[Len(frames)].index
                       = Top.index + 1 + (IF Cur.code = "PushFunction" THEN Cur.body_len
                                          ELSE 0)
                 /\ IndexesBelow(frames', Len(frames) - 1)
                       = IndexesBelow(frames, Len(frames) - 1)
       /\ (status = "exec" /\ status' = "idle" /\ returned'.ok) =>
            /\ Len(frames) = 1
            /\ Top.index = Len(program)]_vars

\* The root invocation goes on right behind the argument block of a call
\* whose body has returned, after it skipped the body of a function literal
C25_Witness ==
    /\ status = "exec"
    /\ Len(frames) = 1
    /\ \E c \in DOMAIN program :
           /\ program[c].code = "CallFunction"
           /\ Top.index = c + program[c].args_len
    /\ \E p \in DOMAIN program :
           /\ program[p].code = "PushFunction"
           /\ p + program[p].body_len < Top.index
           /\ program[p].body_len > 1

\* ------------------------------------------------------------------------
\* Properties of placeholders (LazySpec)
\* ------------------------------------------------------------------------

\* The value of a slot, resolved in the innermost scope as it is now
Now(val) == get_variable(M, Top.scope, val)

\* C26: PushVar pushes the placeholder Variable{name}, whatever the name is
\* bound to, and leaves the scopes alone; Add computes with, and Assign
\* binds, what the operands resolve to when that instruction executes, so
\* that the line a + (a = 5) returns Int(10) whatever a was bound to before.
C26_PlaceholderResolvedAtUse ==
    [][/\ (Executing({"PushVar"}) /\ status' = "exec") =>
            /\ stack'.stacki = stack.stacki + 1
            /\ [stack'.stack[stack'.stacki] EXCEPT !.id = 0] = VVariable(Cur.name)
            /\ scopes' = scopes
       /\ (Executing({"Add"}) /\ status' = "exec"
             /\ Now(Left).k = "Int" /\ Now(Right).k = "Int") =>
            /\ stack'.stack[stack'.stacki].k = "Int"
            /\ stack'.stack[stack'.stacki].n = Now(Left).n + Now(Right).n
       /\ (Executing({"Assign"}) /\ status' = "exec") =>
            scopes'[Top.scope].variables[Left.s] = Now(Right)
       /\ (status = "exec" /\ status' = "idle" /\ returned'.ok /\ line = LazyLine) =>
            (returned'.val.k = "Int" /\ returned'.val.n = 10)]_vars

\* After the line a = 1, the line a + (a = 5) has returned Int(10)
C26_Witness ==
    /\ status = "idle"
    /\ runs = 2
    /\ line = LazyLine
    /\ program[1].code = "PushVar" /\ program[1].name = <<"a">>
    /\ program[2].code = "PushNum" /\ program[2].n = 1
    /\ program[3].code = "Assign"
    /\ returned.ok
    /\ returned.val.n = 10

\* ------------------------------------------------------------------------
\* Properties of the instruction counter (CountSpec)
\* ------------------------------------------------------------------------

\* The number of instructions whose execution a step of do_exec completes:
\* a CallFunction is complete when its body has returned; a Return that ends
\* an argument block or a body counts as returns tells
Completes(returns) ==
    IF ~AtBreak THEN (IF Cur.code = "CallFunction" THEN 0 ELSE 1)
    ELSE (IF Top.index < Len(program) THEN returns ELSE 0)
         + (IF Top.kind = "body" THEN 1 ELSE 0)

\* The machine state after the step
MAfter == [stack |-> stack', pool |-> pool', scopes |-> scopes', next_id |-> next_id']

\* Every step of an exec call that goes on adds the instructions it completes
\* to the one counter of all instances; past GC_INSTRUCTION_COUNT the Pool
\* is swept and the counter starts again from 0, otherwise nothing leaves
\* the Pool; a step that ends the exec call leaves the counter alone; the
\* counter is never more than GC_INSTRUCTION_COUNT between two steps.
CounterFollows(returns) ==
    /\ (status = "exec" /\ status' = "exec") =>
          IF instruction_count + Completes(returns) > GC_INSTRUCTION_COUNT
          THEN /\ instruction_count' = 0
               /\ scope_garbage(MAfter, frames').pool = pool'
          ELSE /\ instruction_count' = instruction_count + Completes(returns)
               /\ SubSeq(pool', 1, Len(pool)) = pool
    /\ (status = "exec" /\ status' # "exec") => instruction_count' = instruction_count
    /\ instruction_count <= GC_INSTRUCTION_COUNT
    /\ instruction_count' <= GC_INSTRUCTION_COUNT

\* C27 as stated: every executed instruction, Return included, adds one to
\* the shared counter, which is swept and reset past 50 and so is at most 50
\* at the start of every instruction.
C27_EveryInstructionCounted == [][CounterFollows(1)]_vars

\* C27, for the instructions other than Return: every instruction that
\* completes without error, in whatever instance, adds one to the shared
\* counter; past 50 the Pool is swept and the counter reset, so that it is
\* at most 50 at the start of every instruction. (A Return ends its
\* invocation without being counted.)
C27_EveryInstructionButReturnCounted == [][CounterFollows(0)]_vars

\* The counter was reset by the 51st counted instruction of LongCallLine,
\* the PushNum(2) in the body of its call
C27_Witness ==
    /\ status = "exec"
    /\ line = LongCallLine
    /\ Len(frames) = 2
    /\ Top.kind = "body"
    /\ instruction_count = 0
    /\ program[Top.index].code = "PushNum"
    /\ program[Top.index].n = 2

\* ------------------------------------------------------------------------
\* Properties of the values of calls (ValueSpec)
\* ------------------------------------------------------------------------

\* C28: a call that completes leaves the Stack one value deeper than it was
\* before the callee was pushed and leaves every slot below as it was, also
\* where the body left no value; and a line that is one expression ends
\* without error with the Stack one value deeper than at its start.
C28_ExpressionLeavesOneValue ==
    [][/\ (status = "exec" /\ Len(frames) >= 2 /\ Top.kind = "body" /\ AtBreak
             /\ status' = "exec") =>
            /\ stack'.stacki = Top.base + 1
            /\ \A i \in 1 .. Top.base : stack'.stack[i] = stack.stack[i]
       /\ (status = "exec" /\ status' = "idle" /\ returned'.ok) =>
            stack.stacki = Top.base + 1]_vars

\* ------------------------------------------------------------------------
\* Properties of the Scopes of calls (DynSpec)
\* ------------------------------------------------------------------------

\* The PushFunction of the function whose body the innermost invocation
\* runs: the handler of the call holds the resolved callee last
CalleeIns == program[Caller.held[Len(Caller.held)].n + 1]

\* The body of the callee holds an Assign
BodyAssigns ==
    \E i \in 1 .. CalleeIns.body_len :
        program[Caller.held[Len(Caller.held)].n + 1 + i].code = "Assign"

\* The body of a call has returned and left a placeholder, and the call goes
\* on without error
BodyLeftPlaceholder ==
    /\ status = "exec"
    /\ Len(frames) >= 2
    /\ Top.kind = "body"
    /\ AtBreak
    /\ stack.stacki > Top.base
    /\ Right.k = "Variable"
    /\ status' = "exec"

\* A CallFunction starts its argument block in a new, empty Scope whose
\* parent is the Scope of the invocation that executes the call, and the
\* body runs in the Scope the argument block ran in.
CallScopes ==
    /\ (Executing({"CallFunction"}) /\ status' = "exec") =>
            /\ frames'[Len(frames')].scope = Len(scopes) + 1
            /\ scopes'[Len(scopes) + 1] = ScopeNew(Top.scope)
    /\ (status = "exec" /\ Len(frames) >= 2 /\ Top.kind = "args" /\ AtBreak
          /\ status' = "exec") =>
            /\ frames'[Len(frames')].kind = "body"
            /\ frames'[Len(frames')].scope = Top.scope
            /\ scopes'[Top.scope].parent = Caller.scope

\* C30 as stated: the body runs in the Scope of the argument block, a child
\* of the caller's Scope at the call site, and a name that is neither a
\* parameter nor assigned in the body resolves, as the value of the body, to
\* what the caller's Scope resolves it to.
C30_FreeNamesResolveInCaller ==
    [][/\ CallScopes
       /\ (BodyLeftPlaceholder /\ ~BodyAssigns
             /\ \A i \in DOMAIN CalleeIns.pars : CalleeIns.pars[i] # Right.s) =>
            stack'.stack[stack'.stacki] = get_variable(M, Caller.scope, Right)]_vars

\* C30, with the argument block taken into account: the body runs in the
\* Scope of the argument block, a child of the caller's Scope at the call
\* site; a name that Scope binds (as a parameter, in the body or by an
\* assignment in the argument block) resolves to that binding, every other
\* name to what the caller's Scope resolves it to.
C30_UnboundNamesResolveInCaller ==
    [][/\ CallScopes
       /\ BodyLeftPlaceholder =>
            stack'.stack[stack'.stacki]
                = IF Right.s \in DOMAIN scopes[Top.scope].variables
                  THEN scopes[Top.scope].variables[Right.s]
                  ELSE get_variable(M, Caller.scope, Right)]_vars

\* NestedCallLine has returned Int(2): the a in the body of f, a function
\* literal of the root instance, resolved to the parameter a of the function
\* that called f
C30_Witness ==
    /\ status = "idle"
    /\ line = NestedCallLine
    /\ returned.ok
    /\ returned.val.k = "Int"
    /\ returned.val.n = 2
    /\ RootBindings[<<"a">>].n = 1

====
